---- MODULE Spec2Model ----
(***************************************************************************)
(* The serial bridge of Qai-AI-AgentOS (agent_backend/src/main.py): the    *)
(* read loop, the line framer, the JSON codec, the task dispatch, the      *)
(* reply classification and the chunked writer, as a state machine.        *)
(*                                                                         *)
(* Text is modelled as a sequence of tokens.  A token is a record          *)
(* [t, v]: t names what the token is, v carries the JSON value a message   *)
(* fragment belongs to (NoMsg for plain bytes).                            *)
(***************************************************************************)
EXTENDS Integers, Sequences, FiniteSets, TLC

VARIABLES
    pc,                 \* position of main() in main.py
    path_exists,        \* os.path.exists(device_path), changed by the emulator
    fd_open,            \* the descriptor returned by os.open is open
    graph,              \* "unset" | "ready" | "none": the agent graph
    read_buffer,        \* main.py:62
    heartbeat_counter,  \* main.py:68
    markers,            \* the dots printed by main.py:95
    msg,                \* main.py:105, the last decoded JSON value
    user_prompt,        \* main.py:112
    msg_id,             \* main.py:113
    response_content,   \* main.py:124..248
    reply,              \* main.py:298
    resp_str,           \* main.py:305, a sequence of characters
    i,                  \* main.py:311, offset of the current chunk
    retries,            \* main.py:317
    exit_cause,         \* why main() returned
    opens,              \* history: number of os.open calls that succeeded
    closes,             \* history: number of os.close calls
    task,               \* history: the task being handled
    wire,               \* history: bytes the channel accepted for this reply
    wlog,               \* history: writer events of this reply
    faults,             \* history: writes of this reply that blocked or fell short
    iters,              \* history: loop iterations started
    resumed_with,       \* history: read_buffer when polling resumed after EIO
    skipped,            \* history: records of this pass skipped as not JSON
    pending,            \* history: the text received after the last newline
                        \*   received
    order,              \* history: task ids of this pass, as they arrived,
                        \*   as the handler was called, as replies went out
    command,            \* shell.py:7, the argument of safe_shell_execute
    executed,           \* history: the programs the shell has started
    stream,             \* framer specification: bytes not yet delivered
    rx,                 \* framer specification: bytes delivered so far
    records,            \* framer specification: records emitted so far
    current_line,       \* kernel_bridge.py:18
    marked,             \* history: the marked characters since the last line end
    turn,               \* history: what the last pass of read_stream did
    reads,              \* history: passes of the loop of read_stream
    max_moves,          \* chess_battle.py:45
    half_moves,         \* chess_battle.py:75
    game,               \* chess_battle.py:53, the ChessGame
    _msg_id,            \* chess_battle.py:14
    issued              \* history: the ids of the calls of send_chess_update

vars == << pc, path_exists, fd_open, graph, read_buffer, heartbeat_counter,
    markers,
           msg, user_prompt, msg_id, response_content, reply, resp_str, i,
           retries, exit_cause, opens, closes, task, wire, wlog, faults,
           iters, resumed_with, skipped, pending, order, command, executed,
           stream, rx, records, current_line, marked, turn, reads,
           max_moves, half_moves, game, _msg_id, issued >>

-----------------------------------------------------------------------------
(* Bounds of the model *)

MaxIter == 3        \* loop iterations of one run
MaxReadLen == 2     \* packets the peer gets into one read
MaxShort == 1       \* bytes accepted by a short write: 1..MaxShort
MaxUpdates == 1     \* streaming updates a tool pushes during one task
MaxFaults == 3      \* writes of one reply that block or fall short
MaxStream == 4      \* framer specification: length of the byte stream
MaxText == 2        \* codec specification: characters of the content
MaxWords == 3       \* shell specification: words of a command
MaxResult == 5      \* classifier specification: tokens of a handler result

(* Program constants *)

ChunkSize == 32
MaxRetries == 3
InterChunkDelayMs == 20
BackoffMs == 10
HeartbeatPeriod == 1000

-----------------------------------------------------------------------------
(* JSON values, as json.loads returns them *)

None == "None"

NoMsg == [kind |-> "none", keys |-> {}, id |-> None, msg_type |-> None,
          content |-> None, content_str |-> FALSE]

Dict(keys, id, mt, content, isstr) ==
    [kind |-> "dict", keys |-> keys, id |-> id, msg_type |-> mt,
     content |-> content, content_str |-> isstr]

AllKeys == {"id", "target", "msg_type", "content"}

Ids == {"7", "8"}

\* One prompt for each branch of the dispatch chain of main.py:120-248.
Prompts == {"plot y = sin(x)", "calculate 2+2", "chess", "psych test",
            "play music", "hello"}

Task(id, p) == Dict(AllKeys, id, "task", p, TRUE)

\* The record the peer may send in two parts.
SplitMsg == Task("8", "hello")

TaskMsgs == {Task("7", p) : p \in Prompts} \cup {SplitMsg}

\* {"id": 7, "target": "shell", "msg_type": "log", "content": "hello"}
NonTaskMsg == Dict(AllKeys, "7", "log", "hello", TRUE)
\* 5, "abc", [1], null: valid JSON that is no object
NonDictMsg == [kind |-> "nondict", keys |-> {}, id |-> None, msg_type |-> None,
               content |-> None, content_str |-> FALSE]
\* {"target": "agent", "msg_type": "task", "content": "hello"}
NoIdMsg == Dict(AllKeys \ {"id"}, None, "task", "hello", TRUE)
\* {"id": 7, "target": "agent", "content": "hello"}
NoTypeMsg == Dict(AllKeys \ {"msg_type"}, "7", None, "hello", TRUE)
\* {"id": 7, "target": "agent", "msg_type": "task", "content": 5}
NonStrMsg == Dict(AllKeys, "7", "task", "5", FALSE)

Msgs == TaskMsgs \cup {NonTaskMsg, NonDictMsg, NoIdMsg, NoTypeMsg, NonStrMsg}

\* A missing key reads as "task".
Get_task_default(m, key, default) == IF key \in m.keys THEN m[key] ELSE "task"

\* dict.get(key, default)
Get(m, key, default) == IF key \in m.keys THEN m[key] ELSE default

-----------------------------------------------------------------------------
(* Bytes and characters *)

B(t) == [t |-> t, v |-> NoMsg]
NL == B("\n")
SP == B(" ")
Garbage == B("x")
Lead == B("0xC3")       \* first byte of a two-byte UTF-8 character
Cont == B("0xA9")       \* its continuation byte
EAcute == B("U+00E9")   \* the character the two bytes encode
Json(m) == [t |-> "json", v |-> m]   \* the whole JSON text of m
JsonHead(m) == [t |-> "head", v |-> m]  \* a prefix of it, cut between two members
JsonTail(m) == [t |-> "tail", v |-> m]  \* the rest

\* bytes.decode('utf-8', errors='ignore') of one read: a complete two-byte
\* character decodes, a lead byte without its continuation and a
\* continuation byte without its lead are dropped.  Position by position:
\* a lead byte becomes the character when its continuation follows, every
\* other lead byte and every continuation byte leaves nothing.
Decode(data) ==
    LET Nothing == B("")
        At(k) == IF data[k] = Lead
                 THEN IF k < Len(data) /\ data[k + 1] = Cont
                      THEN EAcute ELSE Nothing
                 ELSE IF data[k] = Cont THEN Nothing
                 ELSE data[k]
        Kept(x) == x # Nothing
    IN  SelectSeq([k \in 1..Len(data) |-> At(k)], Kept)

HasNewline(buf) == \E k \in 1..Len(buf) : buf[k] = NL

FirstNewline(buf) == CHOOSE k \in 1..Len(buf) :
                        buf[k] = NL /\ \A j \in 1..(k-1) : buf[j] # NL

\* The text between the last two newlines of the buffer.
SplitLine_last(buf) ==
    LET nls == { k \in 1..Len(buf) : buf[k] = NL }
        last == CHOOSE k \in nls : \A j \in nls : j <= k
        before == nls \ {last}
        from == IF before = {} THEN 1
                ELSE (CHOOSE k \in before : \A j \in before : j <= k) + 1
    IN  SubSeq(buf, from, last - 1)

\* Nothing is kept of what follows the line.
SplitRest_clear(buf) == SubSeq(buf, 1, 0)

\* line, read_buffer = read_buffer.split('\n', 1)
SplitLine(buf) == SubSeq(buf, 1, FirstNewline(buf) - 1)
SplitRest(buf) == SubSeq(buf, FirstNewline(buf) + 1, Len(buf))

RECURSIVE LStrip(_)
LStrip(s) == IF s # << >> /\ Head(s) = SP THEN LStrip(Tail(s)) ELSE s

RECURSIVE RStrip(_)
RStrip(s) == IF s # << >> /\ s[Len(s)] = SP
             THEN RStrip(SubSeq(s, 1, Len(s) - 1)) ELSE s

\* The line is taken as it is.
Strip_none(s) == s

\* str.strip()
Strip(s) == RStrip(LStrip(s))

-----------------------------------------------------------------------------
(* The codec *)

JSONDecodeError == [kind |-> "JSONDecodeError", keys |-> {}, id |-> None,
                    msg_type |-> None, content |-> None, content_str |-> FALSE]

NotSpace(c) == c # SP

\* json.loads(line): whitespace between two members is insignificant; a text
\* is valid when it is the whole JSON text of a value, or a head followed by
\* the tail of the same value.
Loads(line) ==
    LET l == SelectSeq(line, NotSpace) IN
    IF Len(l) = 1 /\ l[1].t = "json" THEN l[1].v
    ELSE IF Len(l) = 2 /\ l[1].t = "head" /\ l[2].t = "tail" /\ l[1].v = l[2].v
         THEN l[1].v
    ELSE JSONDecodeError

-----------------------------------------------------------------------------
(* The dispatch chain, main.py:118-156 *)

\* The keywords of the dispatch chain that occur in prompt.lower().
Substrings(p) ==
    CASE p = "plot y = sin(x)" -> {"plot", "=", "sin"}
      [] p = "calculate 2+2"  -> {"calculate"}
      [] p = "chess"          -> {"chess"}
      [] p = "psych test"     -> {"psych test"}
      [] p = "play music"     -> {"music", "play"}
      [] OTHER                -> {}

\* The operators of main.py:125 that occur in the prompt.
Operators(p) ==
    CASE p = "plot y = sin(x)" -> {"sin"}
      [] p = "calculate 2+2"  -> {"+"}
      [] OTHER                -> {}

\* The last branch of the chain calls the agent graph whatever its state.
Branch_graph_always(p, g) ==
    LET in == Substrings(p) IN
    IF "plot" \in in /\ ("=" \in in \/ "sin" \in in \/ "cos" \in in)
    THEN "plot"
    ELSE IF "calculate" \in in \/ ("what is" \in in /\ Operators(p) # {})
    THEN "calculator"
    ELSE IF "chess" \in in \/ "chess battle" \in in
    THEN "chess"
    ELSE IF "agent test" \in in \/ "psych test" \in in
            \/ "psychology test" \in in
    THEN "psych"
    ELSE IF "music" \in in \/ ("play" \in in /\ "chess" \notin in)
    THEN "music"
    ELSE "graph"

Branch(p, g) ==
    LET in == Substrings(p) IN
    IF "plot" \in in /\ ("=" \in in \/ "sin" \in in \/ "cos" \in in)
    THEN "plot"
    ELSE IF "calculate" \in in \/ ("what is" \in in /\ Operators(p) # {})
    THEN "calculator"
    ELSE IF "chess" \in in \/ "chess battle" \in in
    THEN "chess"
    ELSE IF "agent test" \in in \/ "psych test" \in in
            \/ "psychology test" \in in
    THEN "psych"
    ELSE IF "music" \in in \/ ("play" \in in /\ "chess" \notin in)
    THEN "music"
    ELSE IF g = "ready"
    THEN "graph"
    ELSE "no_agent"

\* The tools that main.py calls outside any try block.
DirectBranches == {"plot", "calculator", "chess", "psych", "music"}

\* The branches whose call can raise: plot_with_matplotlib, calculator and
\* play_music catch every Exception themselves and return a text
\* (plotter.py:9-53, calculator.py:9-21, music_player.py:18-112);
\* play_chess_battle and run_agent_psych_test do not, nor does graph.invoke.
RaisingBranches == {"chess", "psych", "graph"}

\* The tools that write to the descriptor handed over by set_pty_fd.
StreamingBranches == {"chess", "psych"}

\* Texts a handler returns, as token sequences.
Results(b) ==
    CASE b = "plot"       -> { << "GUI_PLOT:", "{", "}" >>, << "Error: x" >> }
      [] b = "calculator" -> { << "Result: 4" >> }
      [] b = "chess"      -> { << "GAME COMPLETE!", "\n", "GUI_CHESS:", "{", "}" >> }
      [] b = "psych"      -> { << "TEST COMPLETE" >> }
      [] b = "music"      -> { << "Opened Music." >> }
      [] b = "graph"      -> { << "hi" >>,
                               << "caf", "U+00E9", " au lait, s'il vous plait !!" >>,
                               << "GUI_ML_DASHBOARD:", "{", "}" >>,
                               << "GUI_PIPELINE_DIAGRAM:", "{", "}" >>,
                               << "No response generated." >> }
      [] OTHER            -> { }

AgentError == << "Agent Error: ", "boom" >>
NotInitialized == << "Agent not initialized" >>

-----------------------------------------------------------------------------
(* The classification of a handler result, main.py:250-296 *)

\* The tags main.py:255-261 searches for.
Tags == {"GUI_PIPELINE_DIAGRAM:", "GUI_ML_DASHBOARD:", "GUI_PLOT:", "GUI_CHESS:"}

\* re.search(tag + r'(\{.*\})', s, re.DOTALL): the places where tag is
\* directly followed by "{" with a "}" somewhere after it.
MatchStarts(s, tag) ==
    { p \in 1..Len(s) : /\ s[p] = tag
                        /\ p + 1 <= Len(s)
                        /\ s[p + 1] = "{"
                        /\ \E q \in (p + 2)..Len(s) : s[q] = "}" }

Matches(s, tag) == MatchStarts(s, tag) # {}

Min(S) == CHOOSE x \in S : \A y \in S : x <= y
Max(S) == CHOOSE x \in S : \A y \in S : x >= y

\* match.group(1): from the "{" of the leftmost match to the last "}".
Group1(s, tag) ==
    LET p == Min(MatchStarts(s, tag))
        q == Max({ k \in 1..Len(s) : s[k] = "}" })
    IN  SubSeq(s, p + 1, q)

StartsWith(s, tag) == s # << >> /\ s[1] = tag

\* The chess test made first.
Classify_chess_first(s) ==
    IF Matches(s, "GUI_CHESS:")
    THEN [msg_type |-> "gui_chess", content |-> Group1(s, "GUI_CHESS:")]
    ELSE IF Matches(s, "GUI_PIPELINE_DIAGRAM:")
    THEN [msg_type |-> "gui_pipeline_diagram",
          content |-> Group1(s, "GUI_PIPELINE_DIAGRAM:")]
    ELSE IF Matches(s, "GUI_ML_DASHBOARD:")
    THEN [msg_type |-> "gui_ml_dashboard",
          content |-> Group1(s, "GUI_ML_DASHBOARD:")]
    ELSE IF Matches(s, "GUI_PLOT:")
    THEN [msg_type |-> "gui_plot", content |-> Group1(s, "GUI_PLOT:")]
    ELSE IF StartsWith(s, "GUI_PLOT:")
    THEN [msg_type |-> "gui_plot", content |-> Tail(s)]
    ELSE IF StartsWith(s, "GUI_PIPELINE_DIAGRAM:")
    THEN [msg_type |-> "gui_pipeline_diagram", content |-> Tail(s)]
    ELSE IF StartsWith(s, "GUI_ML_DASHBOARD:")
    THEN [msg_type |-> "gui_ml_dashboard", content |-> Tail(s)]
    ELSE [msg_type |-> "response", content |-> s]

\* A tag counts wherever it stands, with or without a payload.
Classify_anywhere(s) ==
    LET Has(tag) == \E k \in 1..Len(s) : s[k] = tag
        After(tag) == SubSeq(s, (CHOOSE k \in 1..Len(s) : s[k] = tag) + 1, Len(s))
    IN  IF Has("GUI_PIPELINE_DIAGRAM:")
        THEN [msg_type |-> "gui_pipeline_diagram",
              content |-> After("GUI_PIPELINE_DIAGRAM:")]
        ELSE IF Has("GUI_ML_DASHBOARD:")
        THEN [msg_type |-> "gui_ml_dashboard", content |-> After("GUI_ML_DASHBOARD:")]
        ELSE IF Has("GUI_PLOT:")
        THEN [msg_type |-> "gui_plot", content |-> After("GUI_PLOT:")]
        ELSE IF Has("GUI_CHESS:")
        THEN [msg_type |-> "gui_chess", content |-> After("GUI_CHESS:")]
        ELSE [msg_type |-> "response", content |-> s]

\* main.py:250-296
Classify(s) ==
    IF Matches(s, "GUI_PIPELINE_DIAGRAM:")
    THEN [msg_type |-> "gui_pipeline_diagram",
          content |-> Group1(s, "GUI_PIPELINE_DIAGRAM:")]
    ELSE IF Matches(s, "GUI_ML_DASHBOARD:")
    THEN [msg_type |-> "gui_ml_dashboard",
          content |-> Group1(s, "GUI_ML_DASHBOARD:")]
    ELSE IF Matches(s, "GUI_PLOT:")
    THEN [msg_type |-> "gui_plot", content |-> Group1(s, "GUI_PLOT:")]
    ELSE IF Matches(s, "GUI_CHESS:")
    THEN [msg_type |-> "gui_chess", content |-> Group1(s, "GUI_CHESS:")]
    ELSE IF StartsWith(s, "GUI_PLOT:")
    THEN [msg_type |-> "gui_plot", content |-> Tail(s)]
    ELSE IF StartsWith(s, "GUI_PIPELINE_DIAGRAM:")
    THEN [msg_type |-> "gui_pipeline_diagram", content |-> Tail(s)]
    ELSE IF StartsWith(s, "GUI_ML_DASHBOARD:")
    THEN [msg_type |-> "gui_ml_dashboard", content |-> Tail(s)]
    ELSE [msg_type |-> "response", content |-> s]

\* A reply addressed like a streaming update of chess_battle.py.
MakeReply_kernel(id, s) ==
    [id |-> None, target |-> "kernel",
     msg_type |-> Classify(s).msg_type, content |-> Classify(s).content]

\* main.py:298-303
MakeReply(id, s) ==
    [id |-> id, target |-> "shell",
     msg_type |-> Classify(s).msg_type, content |-> Classify(s).content]

NoReply == [id |-> None, target |-> "", msg_type |-> "", content |-> << >>]

-----------------------------------------------------------------------------
(* json.dumps(reply) + "\n", main.py:305 *)

Escape_raw(tok) ==
    IF tok = "\"" THEN "\\\"" ELSE IF tok = "\n" THEN "\\n" ELSE tok

\* json.dumps escapes the quote, the newline and, with ensure_ascii left at
\* its default, every character outside ASCII.
Escape(tok) ==
    IF tok = "\"" THEN "\\\""
    ELSE IF tok = "\n" THEN "\\n"
    ELSE IF tok = "U+00E9" THEN "\\u00e9"
    ELSE tok

RECURSIVE EscapeAll(_)
EscapeAll(s) == IF s = << >> THEN << >>
                ELSE << Escape(Head(s)) >> \o EscapeAll(Tail(s))

JsonId(id) == IF id = None THEN "null" ELSE id

\* Characters of a token; the token U+00E9 names one character.
Width(tok) == IF tok = "U+00E9" THEN 1 ELSE Len(tok)

RECURSIVE Chars(_)
Chars(ts) == IF ts = << >> THEN << >>
             ELSE [k \in 1..Width(Head(ts)) |-> << Head(ts), k >>]
                  \o Chars(Tail(ts))

Dumps(r) ==
    Chars(<< "{\"id\": ", JsonId(r.id), ", \"target\": \"", r.target,
             "\", \"msg_type\": \"", r.msg_type, "\", \"content\": \"" >>
          \o EscapeAll(r.content)
          \o << "\"}" >>)

\* chunk.encode('utf-8'): bytes of one character
ByteLen(ch) == IF ch[1] = "U+00E9" THEN 2 ELSE 1

\* len(chunk.encode('utf-8')): the characters of each encoded width (1 to 4
\* bytes) times the width.
ByteCount(cs) ==
    LET OfWidth(w) == Cardinality({ k \in 1..Len(cs) : ByteLen(cs[k]) = w })
    IN  OfWidth(1) + 2 * OfWidth(2) + 3 * OfWidth(3) + 4 * OfWidth(4)

\* resp_str[i:i+chunk_size]
Chunk(s, off) ==
    SubSeq(s, off + 1, IF off + ChunkSize < Len(s) THEN off + ChunkSize ELSE Len(s))

\* resp_str = json.dumps(reply) + "\n"
RespStr(r) == Dumps(r) \o << << "\n", 1 >> >>

-----------------------------------------------------------------------------
(* What the peer sends *)

Packets ==
    { << Json(m), NL >> : m \in Msgs }
    \cup { << Garbage, NL >>, << NL >>, << SP, NL >>,
           << JsonHead(SplitMsg) >>, << JsonTail(SplitMsg), NL >> }

\* What may follow the first packet in the same read.
Followers ==
    { << Json(SplitMsg), NL >>, << Garbage, NL >>, << JsonHead(SplitMsg) >> }

RECURSIVE Sends(_)
Sends(n) == IF n = 0 THEN { << >> }
            ELSE { p \o s : p \in Followers, s \in Sends(n - 1) }

\* The data one os.read can return: 1..MaxReadLen packets.
PeerSends == { p \o s : p \in Packets,
                        s \in UNION { Sends(n) : n \in 0..(MaxReadLen - 1) } }

\* The text between the newline at position k and the newline before it.
LineEndingAt(buf, k) ==
    LET before == { j \in 1..(k - 1) : buf[j] = NL }
        from == IF before = {} THEN 1
                ELSE (CHOOSE j \in before : \A h \in before : h <= j) + 1
    IN  SubSeq(buf, from, k - 1)

\* The line is a JSON object whose msg_type is "task" (main.py:111).
IsTaskLine(line) ==
    /\ Loads(Strip(line)).kind = "dict"
    /\ Get(Loads(Strip(line)), "msg_type", None) = "task"

RECURSIVE ArrivalsUpTo(_, _)
ArrivalsUpTo(buf, k) ==
    IF k = 0 THEN << >>
    ELSE ArrivalsUpTo(buf, k - 1)
         \o (IF buf[k] = NL /\ IsTaskLine(LineEndingAt(buf, k))
             THEN << Get(Loads(Strip(LineEndingAt(buf, k))), "id", None) >>
             ELSE << >>)

\* The part of a text that follows its last newline.
AfterLastNewline(text) ==
    LET nls == { k \in 1..Len(text) : text[k] = NL }
    IN  IF nls = {} THEN text
        ELSE SubSeq(text, (CHOOSE k \in nls : \A j \in nls : j <= k) + 1, Len(text))

\* The ids of the task records that are complete in the buffer, in the
\* order in which their bytes arrived.
ArrivalIds(buf) == ArrivalsUpTo(buf, Len(buf))

-----------------------------------------------------------------------------
(* The state after main() is entered *)

NoTurn == [byte |-> "", data_byte |-> "", typed |-> << >>, called |-> FALSE,
           cmd |-> << >>, stdin |-> << >>, console |-> << >>]

\* read_stream of kernel_bridge.py has not been called.
KernelAtRest ==
    /\ current_line = << >>
    /\ marked = << >>
    /\ turn = NoTurn
    /\ reads = 0

NoGame == [move_history |-> << >>, game_over |-> FALSE]

\* play_chess_battle of chess_battle.py has not been called.
ChessAtRest ==
    /\ max_moves = 0
    /\ half_moves = 0
    /\ game = NoGame
    /\ _msg_id = 0
    /\ issued = << >>

NoOrder == [arrivals |-> << >>, started |-> << >>, emitted |-> << >>,
            blanks |-> 0, read |-> "none"]

NoTask == [id |-> None, active |-> FALSE, replies |-> 0, updates |-> 0,
           raised |-> FALSE, streamed |-> << >>]

Init ==
    /\ pc = "input"
    /\ path_exists \in BOOLEAN
    /\ fd_open = FALSE
    /\ graph = "unset"
    /\ read_buffer = << >>
    /\ heartbeat_counter = 0
    /\ markers = 0
    /\ msg = NoMsg
    /\ user_prompt = ""
    /\ msg_id = None
    /\ response_content = << >>
    /\ reply = NoReply
    /\ resp_str = << >>
    /\ i = 0
    /\ retries = 0
    /\ exit_cause = "running"
    /\ opens = 0
    /\ closes = 0
    /\ task = NoTask
    /\ wire = << >>
    /\ wlog = << >>
    /\ faults = 0
    /\ iters = 0
    /\ resumed_with = << >>
    /\ skipped = 0
    /\ pending = << >>
    /\ order = NoOrder
    /\ KernelAtRest
    /\ ChessAtRest
    /\ command = << >>
    /\ executed = {}
    /\ stream = << >>
    /\ rx = << >>
    /\ records = << >>

framerVars == << stream, rx, records >>
kernelVars == << current_line, marked, turn, reads >>
chessVars == << max_moves, half_moves, game, _msg_id, issued >>
shellVars == << command, executed >>
idle == << skipped, pending, order, shellVars, framerVars,
                    kernelVars, chessVars >>
loopVars == << read_buffer, heartbeat_counter, markers, msg, user_prompt,
               msg_id,
               response_content, reply, resp_str, i, retries >>
histVars == << task, wire, wlog, faults, iters, resumed_with >>

\* main() returns without closing anything.
Return(cause) ==
    /\ pc' = "done"
    /\ exit_cause' = cause
    /\ UNCHANGED << fd_open, closes >>

\* main.py:333-339: the handlers of the outer try, then os.close(fd).
Finally(cause) ==
    /\ pc' = "done"
    /\ exit_cause' = cause
    /\ fd_open' = FALSE
    /\ closes' = closes + 1

\* main.py:28-36
InputPath ==
    /\ pc = "input"
    /\ \/ /\ pc' = "exists"
          /\ UNCHANGED << exit_cause, fd_open, closes >>
       \/ Return("no_device")
    /\ UNCHANGED << path_exists, graph, opens >>
    /\ UNCHANGED << loopVars, histVars, idle >>

\* The path is not looked at.
CheckExists_skip ==
    /\ pc = "exists"
    /\ pc' = "open"
    /\ UNCHANGED << exit_cause, fd_open, closes >>
    /\ UNCHANGED << path_exists, graph, opens >>
    /\ UNCHANGED << loopVars, histVars, idle >>

\* main.py:38-40
CheckExists ==
    /\ pc = "exists"
    /\ IF path_exists
       THEN /\ pc' = "open"
            /\ UNCHANGED << exit_cause, fd_open, closes >>
       ELSE Return("no_device")
    /\ UNCHANGED << path_exists, graph, opens >>
    /\ UNCHANGED << loopVars, histVars, idle >>

\* The errors os.open can raise on a path that exists: the first is final,
\* the second goes away when the other side lets go of the device.
OpenErrors == {"EACCES", "EBUSY"}

RecoverableOpenErrors == {"EBUSY"}

\* main.py:47-49: one handler for every exception of os.open; main() returns.
OnOpenError(e) ==
    Return(IF e \in RecoverableOpenErrors
           THEN "open_failed_recoverable" ELSE "open_failed")

\* main.py:44-49
OpenChannel ==
    /\ pc = "open"
    /\ \/ /\ fd_open' = TRUE
          /\ opens' = opens + 1
          /\ pc' = "init_agent"
          /\ UNCHANGED << exit_cause, closes >>
       \/ /\ \E e \in OpenErrors : OnOpenError(e)
          /\ UNCHANGED opens
    /\ UNCHANGED << path_exists, graph >>
    /\ UNCHANGED << loopVars, histVars, idle >>

\* main.py:51-60
InitAgent ==
    /\ pc = "init_agent"
    /\ graph' \in {"ready", "none"}
    /\ pc' = "tools"
    /\ UNCHANGED << path_exists, fd_open, opens, closes, exit_cause >>
    /\ UNCHANGED << loopVars, histVars, idle >>

\* main.py:62-68
PrintTools ==
    /\ pc = "tools"
    /\ read_buffer' = << >>
    /\ heartbeat_counter' = 0
    /\ markers' = 0
    /\ pc' = "read"
    /\ UNCHANGED << path_exists, fd_open, graph, opens, closes, exit_cause >>
    /\ UNCHANGED << msg, user_prompt, msg_id, response_content, reply,
                    resp_str, i, retries >>
    /\ UNCHANGED << histVars, idle >>

-----------------------------------------------------------------------------
(* The read loop, main.py:70-96 *)

\* The test of the period is off by one.
Heartbeat_late(c) == IF c + 1 > HeartbeatPeriod THEN 0 ELSE c + 1

\* main.py:93-96
Heartbeat(c) == IF c + 1 >= HeartbeatPeriod THEN 0 ELSE c + 1

\* main.py:94-95: the dot is printed in the pass that resets the counter.
Marked(m, c) == IF c + 1 >= HeartbeatPeriod THEN m + 1 ELSE m

\* main.py:76
Feed(buf, data) == buf \o Decode(data)

KeepRunning == UNCHANGED << fd_open, closes, exit_cause >>

\* How the os.read of the iteration ended, and the task records complete
\* in the buffer after it.
Polled(outcome) ==
    order' = [order EXCEPT !.arrivals = ArrivalIds(read_buffer'),
                           !.read = outcome]

\* The exception of a read without data is not caught.
OnBlockingRead_fatal ==
    /\ UNCHANGED << read_buffer, pending, heartbeat_counter, markers >>
    /\ Polled("block")
    /\ Finally("exception")

\* main.py:77-81 and 93-96: BlockingIOError, or OSError with errno 35, is
\* passed over (a read of b"" does the same): on to the heartbeat.
OnBlockingRead ==
    /\ UNCHANGED << read_buffer, pending >>
    /\ heartbeat_counter' = Heartbeat(heartbeat_counter)
    /\ markers' = Marked(markers, heartbeat_counter)
    /\ Polled("block")
    /\ pc' = "lines"
    /\ KeepRunning

\* One pass over main.py:71-96: the read, its error handling up to the
\* sleep of the EIO branch, and the heartbeat.
Read ==
    /\ pc = "read"
    /\ iters < MaxIter
    /\ iters' = iters + 1
    /\ \/ \E data \in PeerSends :          \* os.read returned data
            /\ read_buffer' = Feed(read_buffer, data)
            /\ pending' = AfterLastNewline(pending \o Decode(data))
            /\ heartbeat_counter' = Heartbeat(heartbeat_counter)
            /\ markers' = Marked(markers, heartbeat_counter)
            /\ Polled("data")
            /\ pc' = "lines"
            /\ KeepRunning
       \/ OnBlockingRead
       \/ /\ UNCHANGED << read_buffer, heartbeat_counter, markers,
                          pending >>   \* EIO
          /\ Polled("EIO")
          /\ pc' = "recover"
          /\ KeepRunning
       \/ /\ UNCHANGED << read_buffer, heartbeat_counter, markers,
                          pending >>   \* another OSError
          /\ Polled("OSError")
          /\ Finally("exception")
    /\ UNCHANGED << path_exists, graph, opens >>
    /\ UNCHANGED << msg, user_prompt, msg_id, response_content, reply,
                    resp_str, i, retries >>
    /\ UNCHANGED << task, wire, wlog, faults, resumed_with, skipped, shellVars,
                    framerVars, kernelVars, chessVars >>

Recover_reset(exists) ==
    IF exists
    THEN /\ read_buffer' = << >>
         /\ heartbeat_counter' = Heartbeat(heartbeat_counter)
         /\ markers' = Marked(markers, heartbeat_counter)
         /\ resumed_with' = read_buffer
         /\ pc' = "lines"
         /\ KeepRunning
    ELSE /\ UNCHANGED << read_buffer, heartbeat_counter, markers,
                         resumed_with >>
         /\ Finally("path_gone")

\* main.py:84-88 after the sleep: the path is checked; the loop goes on
\* with the heartbeat or breaks.
AfterWait(exists) ==
    IF exists
    THEN /\ UNCHANGED read_buffer
         /\ heartbeat_counter' = Heartbeat(heartbeat_counter)
         /\ markers' = Marked(markers, heartbeat_counter)
         /\ resumed_with' = read_buffer
         /\ pc' = "lines"
         /\ KeepRunning
    ELSE /\ UNCHANGED << read_buffer, heartbeat_counter, markers,
                         resumed_with >>
         /\ Finally("path_gone")

Recover ==
    /\ pc = "recover"
    /\ \E exists \in BOOLEAN :
          /\ path_exists' = exists
          /\ AfterWait(exists)
    /\ UNCHANGED << graph, opens >>
    /\ UNCHANGED << msg, user_prompt, msg_id, response_content, reply,
                    resp_str, i, retries >>
    /\ UNCHANGED << task, wire, wlog, faults, iters, idle >>

-----------------------------------------------------------------------------
(* The record loop, main.py:98-118 *)

\* continue
Continue ==
    /\ pc' = "lines"
    /\ UNCHANGED << msg, user_prompt, msg_id, task >>
    /\ KeepRunning

OnJSONDecodeError_fatal ==
    /\ Finally("exception")
    /\ UNCHANGED << msg, user_prompt, msg_id, task >>

\* main.py:106-107
OnJSONDecodeError == Continue

\* isinstance(msg.get('content', ''), str)
ContentIsStr(m) == "content" \notin m.keys \/ m.content_str

\* main.py:109-118 for the decoded value m
Received(m) ==
    /\ msg' = m
    /\ IF m.kind # "dict"
       THEN \* msg.get raises AttributeError
            /\ Finally("exception")
            /\ UNCHANGED << user_prompt, msg_id, task >>
       ELSE IF Get(m, "msg_type", None) = "task"
       THEN /\ user_prompt' = Get(m, "content", "")
            /\ msg_id' = Get(m, "id", None)
            /\ task' = [id |-> Get(m, "id", None), active |-> TRUE,
                        replies |-> 0, updates |-> 0, raised |-> FALSE,
                        streamed |-> << >>]
            /\ IF ContentIsStr(m)
               THEN pc' = "dispatch" /\ KeepRunning
               ELSE Finally("exception")   \* user_prompt.lower()
       ELSE /\ pc' = "lines"
            /\ UNCHANGED << user_prompt, msg_id, task >>
            /\ KeepRunning

\* json.loads raises JSONDecodeError for the line.
NotJson(line) == line # << >> /\ Loads(line) = JSONDecodeError

NextLine ==
    /\ pc = "lines"
    /\ HasNewline(read_buffer)
    /\ read_buffer' = SplitRest(read_buffer)
    /\ LET line == Strip(SplitLine(read_buffer)) IN
         IF line = << >> THEN Continue
         ELSE IF NotJson(line) THEN OnJSONDecodeError
         ELSE Received(Loads(line))
    /\ skipped' = IF NotJson(Strip(SplitLine(read_buffer)))
                  THEN skipped + 1 ELSE skipped
    /\ order' = IF pc' = "dispatch"
                THEN [order EXCEPT !.started = Append(@, msg_id')]
                ELSE IF Strip(SplitLine(read_buffer)) = << >>
                THEN [order EXCEPT !.blanks = @ + 1]
                ELSE order
    /\ UNCHANGED << path_exists, graph, opens, heartbeat_counter, markers >>
    /\ UNCHANGED << response_content, reply, resp_str, i, retries >>
    /\ UNCHANGED << wire, wlog, faults, iters, resumed_with, pending, shellVars,
                    framerVars, kernelVars, chessVars >>

\* The record loop is left while records are still in the buffer.
Sleep_early ==
    /\ pc = "lines"
    /\ pc' = "read"
    /\ msg' = NoMsg
    /\ UNCHANGED << path_exists, fd_open, graph, opens, closes, exit_cause >>
    /\ skipped' = 0
    /\ order' = NoOrder
    /\ UNCHANGED << read_buffer, heartbeat_counter, markers, user_prompt,
                    msg_id,
                    response_content, reply, resp_str, i, retries >>
    /\ UNCHANGED << histVars, pending, shellVars, framerVars,
                    kernelVars, chessVars >>

\* main.py:331
Sleep ==
    /\ pc = "lines"
    /\ ~ HasNewline(read_buffer)
    /\ pc' = "read"
    /\ msg' = NoMsg
    /\ UNCHANGED << path_exists, fd_open, graph, opens, closes, exit_cause >>
    /\ skipped' = 0
    /\ order' = NoOrder
    /\ UNCHANGED << read_buffer, heartbeat_counter, markers, user_prompt,
                    msg_id,
                    response_content, reply, resp_str, i, retries >>
    /\ UNCHANGED << histVars, pending, shellVars, framerVars,
                    kernelVars, chessVars >>

-----------------------------------------------------------------------------
(* The handler call, main.py:120-248 *)

Returned(r) ==
    /\ response_content' = r
    /\ pc' = "classify"
    /\ UNCHANGED task
    /\ KeepRunning

\* The handler raises.  Only the agent graph is called inside a try
\* (main.py:157, 243-246); an error of a tool called directly reaches the
\* handler of the outer try (main.py:335).
OnHandlerError(b) ==
    IF b \in DirectBranches
    THEN /\ UNCHANGED response_content
         /\ task' = [task EXCEPT !.raised = TRUE]
         /\ Finally("exception")
    ELSE /\ response_content' = AgentError
         /\ pc' = "classify"
         /\ task' = [task EXCEPT !.raised = TRUE]
         /\ KeepRunning

\* The handler returns or raises.  The agent-graph branch (main.py:157-246)
\* is taken as a whole: its result is the GUI payload of a tool message,
\* the last AI answer, the result of a tool called locally, or the default
\* text; every error inside it ends in AgentError.
Handler ==
    /\ pc = "dispatch"
    /\ LET b == Branch(user_prompt, graph) IN
         \/ \E r \in Results(b) : Returned(r)
         \/ b = "no_agent" /\ Returned(NotInitialized)
         \/ b \in RaisingBranches /\ OnHandlerError(b)
    /\ UNCHANGED << path_exists, graph, opens >>
    /\ UNCHANGED << read_buffer, heartbeat_counter, markers, msg,
                    user_prompt, msg_id,
                    reply, resp_str, i, retries >>
    /\ UNCHANGED << wire, wlog, faults, iters, resumed_with, idle >>

\* msg_str of chess_battle.py:35, chunk by chunk: the last chunk ends with
\* the newline.
UpdateStr == << "msg_str[0:32]", "msg_str[32:64]", "msg_str[64:]" >>

\* chess_battle.py:34-43: os.write chunk after chunk on the descriptor of
\* the bridge; the first write that raises (BlockingIOError on the
\* non-blocking descriptor, OSError) ends the loop and is swallowed:
\* n chunks have gone out.
Streamed(t, n) ==
    [t EXCEPT !.updates = @ + 1,
              !.streamed = @ \o SubSeq(UpdateStr, 1, n)]

\* chess_battle.py:21-43 and psych_test/orchestrator.py:22-44: a tool that
\* was handed the descriptor pushes one update on it while it runs.
StreamUpdate ==
    /\ pc = "dispatch"
    /\ Branch(user_prompt, graph) \in StreamingBranches
    /\ task.updates < MaxUpdates
    /\ \E n \in 0..Len(UpdateStr) : task' = Streamed(task, n)
    /\ UNCHANGED << pc, path_exists, fd_open, graph, opens, closes, exit_cause >>
    /\ UNCHANGED << loopVars, wire, wlog, faults, iters, resumed_with, idle >>

\* main.py:250-311: the reply is built and serialized, the chunk loop starts.
BuildReply ==
    /\ pc = "classify"
    /\ reply' = MakeReply(msg_id, response_content)
    /\ resp_str' = RespStr(reply')
    /\ i' = 0
    /\ retries' = MaxRetries
    /\ task' = [task EXCEPT !.replies = @ + 1]
    /\ wire' = << >>
    /\ wlog' = << >>
    /\ faults' = 0
    /\ pc' = "write"
    /\ UNCHANGED << path_exists, fd_open, graph, opens, closes, exit_cause >>
    /\ UNCHANGED << read_buffer, heartbeat_counter, markers, msg,
                    user_prompt, msg_id,
                    response_content >>
    /\ UNCHANGED << iters, resumed_with, idle >>

-----------------------------------------------------------------------------
(* The chunked writer, main.py:310-326 *)

Event(op, off, n) == [op |-> op, off |-> off, n |-> n]

\* The chunk loop moves to the next chunk, or ends.
NextChunk ==
    /\ i' = i + ChunkSize
    /\ retries' = MaxRetries
    /\ IF i + ChunkSize >= Len(resp_str)
       THEN pc' = "sent" /\ task' = [task EXCEPT !.active = FALSE]
       ELSE pc' = "write" /\ UNCHANGED task
    /\ KeepRunning

\* os.write accepted the first n characters of the chunk.  Its return value
\* is not read: the loop goes on to the next chunk.
Accepted(chunk, n) ==
    /\ wire' = wire \o SubSeq(chunk, 1, n)
    /\ faults' = IF n < Len(chunk) THEN faults + 1 ELSE faults
    /\ wlog' = wlog \o << Event("write", i, ByteCount(chunk)),
                          Event("sleep", i, InterChunkDelayMs) >>
    /\ NextChunk

\* The countdown of the attempts is lost: a chunk that blocks is tried
\* again until it is accepted.
OnBlockingIOError_forever(chunk) ==
    /\ UNCHANGED wire
    /\ faults' = faults + 1
    /\ wlog' = wlog \o << Event("write", i, ByteCount(chunk)),
                          Event("sleep", i, BackoffMs) >>
    /\ UNCHANGED << i, retries, pc, task >>
    /\ KeepRunning

\* main.py:322-326
OnBlockingIOError(chunk) ==
    /\ UNCHANGED wire
    /\ faults' = faults + 1
    /\ IF retries - 1 > 0
       THEN /\ wlog' = wlog \o << Event("write", i, ByteCount(chunk)),
                                  Event("sleep", i, BackoffMs) >>
            /\ retries' = retries - 1
            /\ UNCHANGED << i, pc, task >>
            /\ KeepRunning
       ELSE /\ wlog' = wlog \o << Event("write", i, ByteCount(chunk)),
                                  Event("sleep", i, BackoffMs),
                                  Event("sleep", i, InterChunkDelayMs) >>
            /\ NextChunk

\* The chunk that met the error is given up and the writer goes on with the
\* next one.
OnOSError_next(chunk) ==
    /\ UNCHANGED << wire, faults >>
    /\ wlog' = wlog \o << Event("write", i, ByteCount(chunk)),
                          Event("EIO", i, 0) >>
    /\ NextChunk

\* main.py:320-339: os.write raises an OSError that is not a
\* BlockingIOError, e.g. EIO.  No handler inside the loop takes it: it
\* leaves the chunk loop, the record loop and the loop of the bridge, is
\* printed by the handler of line 335, and the descriptor is closed.
OnOSError(chunk) ==
    /\ UNCHANGED << wire, faults, i, retries, task >>
    /\ wlog' = wlog \o << Event("write", i, ByteCount(chunk)),
                          Event("EIO", i, 0) >>
    /\ Finally("exception")

\* One os.write of main.py:320 and what follows it.
WriteChunk ==
    /\ pc = "write"
    /\ LET chunk == Chunk(resp_str, i) IN
         \/ Accepted(chunk, Len(chunk))
         \/ /\ faults < MaxFaults
            /\ \E n \in 1..MaxShort : n < Len(chunk) /\ Accepted(chunk, n)
         \/ /\ faults < MaxFaults
            /\ OnBlockingIOError(chunk)
         \/ OnOSError(chunk)
    /\ UNCHANGED << path_exists, graph, opens >>
    /\ UNCHANGED << read_buffer, heartbeat_counter, markers, msg,
                    user_prompt, msg_id,
                    response_content, reply, resp_str >>
    /\ order' = IF pc' = "sent"
                THEN [order EXCEPT !.emitted = Append(@, reply.id)]
                ELSE order
    /\ UNCHANGED << iters, resumed_with, skipped, pending, shellVars, framerVars,
                    kernelVars, chessVars >>

\* The values the record loop leaves behind are assigned again before they
\* are read again; the model forgets them with the histories of the record.
Forget ==
    /\ msg' = NoMsg
    /\ user_prompt' = ""
    /\ msg_id' = None
    /\ response_content' = << >>
    /\ reply' = NoReply
    /\ resp_str' = << >>
    /\ i' = 0
    /\ retries' = 0
    /\ task' = NoTask
    /\ wire' = << >>
    /\ wlog' = << >>
    /\ faults' = 0
    /\ resumed_with' = << >>

\* The chunk loop of main.py:311 has ended: back to the test of main.py:98.
RecordDone ==
    /\ pc = "sent"
    /\ pc' = "lines"
    /\ Forget
    /\ UNCHANGED << path_exists, fd_open, graph, opens, closes, exit_cause >>
    /\ UNCHANGED << read_buffer, heartbeat_counter, markers, iters, idle >>

-----------------------------------------------------------------------------
(* KeyboardInterrupt *)

InLoop == pc \in {"read", "recover", "lines", "dispatch", "classify", "write",
                  "sent"}

\* The try of main.py:69 covers the loop only: an interrupt that arrives
\* between os.open and that try leaves main() with the descriptor open.
Interrupt ==
    /\ \/ pc \in {"init_agent", "tools"} /\ Return("interrupt")
       \/ InLoop /\ Finally("interrupt")
    /\ UNCHANGED << path_exists, graph, opens >>
    /\ UNCHANGED << loopVars, histVars, idle >>

Next ==
    \/ InputPath
    \/ CheckExists
    \/ OpenChannel
    \/ InitAgent
    \/ PrintTools
    \/ Read
    \/ Recover
    \/ NextLine
    \/ Sleep
    \/ Handler
    \/ StreamUpdate
    \/ BuildReply
    \/ WriteChunk
    \/ RecordDone
    \/ Interrupt

Spec == Init /\ [][Next]_vars

-----------------------------------------------------------------------------
(* The loop of main.py:70-96 and 331 while the shell sends no record *)

MaxBeats == 2001

\* main.py:62-69: the descriptor is open, the buffer empty, the counter 0.
HeartbeatInit ==
    /\ pc = "read"
    /\ path_exists = TRUE
    /\ fd_open = TRUE
    /\ graph \in {"ready", "none"}
    /\ read_buffer = << >>
    /\ heartbeat_counter = 0
    /\ markers = 0
    /\ msg = NoMsg
    /\ user_prompt = ""
    /\ msg_id = None
    /\ response_content = << >>
    /\ reply = NoReply
    /\ resp_str = << >>
    /\ i = 0
    /\ retries = 0
    /\ exit_cause = "running"
    /\ opens = 1
    /\ closes = 0
    /\ task = NoTask
    /\ wire = << >>
    /\ wlog = << >>
    /\ faults = 0
    /\ iters = 0
    /\ resumed_with = << >>
    /\ skipped = 0
    /\ pending = << >>
    /\ order = NoOrder
    /\ KernelAtRest
    /\ ChessAtRest
    /\ command = << >>
    /\ executed = {}
    /\ stream = << >>
    /\ rx = << >>
    /\ records = << >>

\* One iteration of main.py:70-96 in which no line is completed, then the
\* sleep of line 331.  The read returns a byte that decodes to nothing,
\* or raises BlockingIOError, or raises EIO with the path still there after
\* the 2 s (line 86); with the path gone the loop breaks before the
\* heartbeat.
Poll(outcome) ==
    /\ pc = "read"
    /\ iters < MaxBeats
    /\ iters' = iters + 1
    /\ read_buffer' = IF outcome = "data" THEN Feed(read_buffer, << Cont >>)
                      ELSE read_buffer
    /\ IF outcome = "gone"
       THEN /\ path_exists' = FALSE
            /\ UNCHANGED << heartbeat_counter, markers >>
            /\ Finally("path_gone")
       ELSE /\ heartbeat_counter' = Heartbeat(heartbeat_counter)
            /\ markers' = Marked(markers, heartbeat_counter)
            /\ UNCHANGED << pc, path_exists >>
            /\ KeepRunning
    /\ UNCHANGED << graph, opens >>
    /\ UNCHANGED << msg, user_prompt, msg_id, response_content, reply,
                    resp_str, i, retries >>
    /\ UNCHANGED << task, wire, wlog, faults, resumed_with, idle >>

HeartbeatNext ==
    \/ Poll("data")
    \/ Poll("block")
    \/ Poll("EIO")
    \/ Poll("gone")

HeartbeatSpec == HeartbeatInit /\ [][HeartbeatNext]_vars

-----------------------------------------------------------------------------
(* pty_echo_bridge.py: the bridge without the agent *)

\* pty_echo_bridge.py:39-52: the descriptor is open, the buffer empty.
EchoInit ==
    /\ pc = "read"
    /\ path_exists = TRUE
    /\ fd_open = TRUE
    /\ graph = "unset"
    /\ read_buffer = << >>
    /\ heartbeat_counter = 0
    /\ markers = 0
    /\ msg = NoMsg
    /\ user_prompt = ""
    /\ msg_id = None
    /\ response_content = << >>
    /\ reply = NoReply
    /\ resp_str = << >>
    /\ i = 0
    /\ retries = 0
    /\ exit_cause = "running"
    /\ opens = 1
    /\ closes = 0
    /\ task = NoTask
    /\ wire = << >>
    /\ wlog = << >>
    /\ faults = 0
    /\ iters = 0
    /\ resumed_with = << >>
    /\ skipped = 0
    /\ pending = << >>
    /\ order = NoOrder
    /\ KernelAtRest
    /\ ChessAtRest
    /\ command = << >>
    /\ executed = {}
    /\ stream = << >>
    /\ rx = << >>
    /\ records = << >>

\* What the echo bridge never assigns.
echoFixed == << path_exists, graph, opens, heartbeat_counter, markers,
               user_prompt, msg_id, response_content, retries, resumed_with,
               skipped, pending, order, shellVars, framerVars,
                    kernelVars, chessVars >>

\* pty_echo_bridge.py:56-68: EIO leaves the loop, the finally closes.
EchoRead ==
    /\ pc = "read"
    /\ iters < MaxIter
    /\ iters' = iters + 1
    /\ \/ \E data \in PeerSends :
            /\ read_buffer' = Feed(read_buffer, data)
            /\ pc' = "lines"
            /\ KeepRunning
       \/ /\ UNCHANGED read_buffer          \* BlockingIOError, EAGAIN or b""
          /\ pc' = "lines"
          /\ KeepRunning
       \/ /\ UNCHANGED read_buffer          \* EIO: break
          /\ Finally("disconnected")
       \/ /\ UNCHANGED read_buffer          \* another OSError
          /\ Finally("exception")
    /\ UNCHANGED << msg, reply, resp_str, i, task, wire, wlog, faults >>
    /\ UNCHANGED echoFixed

\* pty_echo_bridge.py:90-95
MakeEcho(m) ==
    [id |-> Get(m, "id", None), target |-> "shell", msg_type |-> "response",
     content |-> << "Echo: ", Get(m, "content", "") >>]

\* pty_echo_bridge.py:71-96 and 113-114: one line is taken from the buffer.
\* The print of line 84 calls msg.get and slices the content: a value that
\* is no object, or a content that is no string, raises there, and only
\* JSONDecodeError is caught.
EchoLine ==
    /\ pc = "lines"
    /\ HasNewline(read_buffer)
    /\ read_buffer' = SplitRest(read_buffer)
    /\ LET line == Strip(SplitLine(read_buffer))
           m == Loads(line)
       IN  IF line = << >> \/ NotJson(line)
           THEN /\ UNCHANGED << pc, msg, reply, resp_str, i, task, wire, wlog,
                                faults >>
                /\ KeepRunning
           ELSE /\ msg' = m
                /\ IF m.kind # "dict" \/ ~ ContentIsStr(m)
                   THEN /\ Finally("exception")
                        /\ UNCHANGED << reply, resp_str, i, task, wire, wlog,
                                        faults >>
                   ELSE IF Get(m, "msg_type", None) = "task"
                   THEN /\ reply' = MakeEcho(m)
                        /\ resp_str' = RespStr(reply')
                        /\ i' = 0
                        /\ task' = [NoTask EXCEPT !.id = Get(m, "id", None),
                                                  !.active = TRUE,
                                                  !.replies = 1]
                        /\ wire' = << >>
                        /\ wlog' = << >>
                        /\ faults' = 0
                        /\ pc' = "write"
                        /\ KeepRunning
                   ELSE /\ UNCHANGED << pc, reply, resp_str, i, task, wire,
                                        wlog, faults >>
                        /\ KeepRunning
    /\ UNCHANGED iters
    /\ UNCHANGED echoFixed

\* pty_echo_bridge.py:116
EchoSleep ==
    /\ pc = "lines"
    /\ ~ HasNewline(read_buffer)
    /\ pc' = "read"
    /\ KeepRunning
    /\ UNCHANGED << read_buffer, msg, reply, resp_str, i, task, wire, wlog,
                    faults, iters >>
    /\ UNCHANGED echoFixed

\* One os.write of the chunk loop of pty_echo_bridge.py:101-109: the first
\* one of a chunk is inside the try (line 104); the one after the 10 ms
\* sleep (line 107) is inside the except clause, where nothing catches a
\* second BlockingIOError.  The outer try has only 'except
\* KeyboardInterrupt' and the finally.
EchoWrite(first) ==
    /\ pc = IF first THEN "write" ELSE "rewrite"
    /\ LET chunk == Chunk(resp_str, i)
           Wrote(n) ==
               /\ wire' = wire \o SubSeq(chunk, 1, n)
               /\ faults' = IF n < Len(chunk) THEN faults + 1 ELSE faults
               /\ wlog' = wlog \o << Event("write", i, ByteCount(chunk)),
                                     Event("sleep", i, InterChunkDelayMs) >>
               /\ i' = i + ChunkSize
               /\ IF i + ChunkSize >= Len(resp_str)
                  THEN pc' = "lines" /\ task' = [task EXCEPT !.active = FALSE]
                  ELSE pc' = "write" /\ UNCHANGED task
               /\ KeepRunning
       IN  \/ Wrote(Len(chunk))
           \/ /\ faults < MaxFaults
              /\ \E n \in 1..MaxShort : n < Len(chunk) /\ Wrote(n)
           \/ /\ faults < MaxFaults               \* BlockingIOError
              /\ faults' = faults + 1
              /\ UNCHANGED << wire, i, task >>
              /\ IF first
                 THEN /\ wlog' = wlog \o << Event("write", i, ByteCount(chunk)),
                                            Event("sleep", i, BackoffMs) >>
                      /\ pc' = "rewrite"
                      /\ KeepRunning
                 ELSE /\ wlog' = wlog \o << Event("write", i, ByteCount(chunk)),
                                            Event("BlockingIOError", i, 0) >>
                      /\ Finally("exception")
           \/ /\ UNCHANGED << wire, faults, i, task >>   \* OSError, e.g. EIO
              /\ wlog' = wlog \o << Event("write", i, ByteCount(chunk)),
                                    Event("EIO", i, 0) >>
              /\ Finally("exception")
    /\ UNCHANGED << read_buffer, msg, reply, resp_str, iters >>
    /\ UNCHANGED echoFixed

\* pty_echo_bridge.py:118-121
EchoInterrupt ==
    /\ pc \in {"read", "lines", "write", "rewrite"}
    /\ Finally("interrupt")
    /\ UNCHANGED << read_buffer, msg, reply, resp_str, i, task, wire, wlog,
                    faults, iters >>
    /\ UNCHANGED echoFixed

EchoNext ==
    \/ EchoRead
    \/ EchoLine
    \/ EchoSleep
    \/ EchoWrite(TRUE)
    \/ EchoWrite(FALSE)
    \/ EchoInterrupt

EchoSpec == EchoInit /\ [][EchoNext]_vars

-----------------------------------------------------------------------------
(* The framer alone (main.py:72-76 and 98-102) on a byte stream that the    *)
(* reads cut at any place.                                                 *)

FramerBytes == {NL, SP, Garbage, Lead, Cont}

RECURSIVE SeqsOf(_, _)
SeqsOf(S, n) == IF n = 0 THEN { << >> }
                ELSE { << >> } \cup { << x >> \o t : x \in S, t \in SeqsOf(S, n - 1) }

FramerInit ==
    /\ pc = "framer"
    /\ stream \in SeqsOf(FramerBytes, MaxStream)
    /\ rx = << >>
    /\ records = << >>
    /\ read_buffer = << >>
    /\ path_exists = TRUE
    /\ fd_open = TRUE
    /\ graph = "unset"
    /\ heartbeat_counter = 0
    /\ markers = 0
    /\ msg = NoMsg
    /\ user_prompt = ""
    /\ msg_id = None
    /\ response_content = << >>
    /\ reply = NoReply
    /\ resp_str = << >>
    /\ i = 0
    /\ retries = 0
    /\ exit_cause = "running"
    /\ opens = 1
    /\ closes = 0
    /\ task = NoTask
    /\ wire = << >>
    /\ wlog = << >>
    /\ faults = 0
    /\ iters = 0
    /\ resumed_with = << >>
    /\ skipped = 0
    /\ pending = << >>
    /\ order = NoOrder
    /\ KernelAtRest
    /\ ChessAtRest
    /\ command = << >>
    /\ executed = {}

framerFixed == << pc, path_exists, fd_open, graph, heartbeat_counter,
    markers, msg,
                  user_prompt, msg_id, response_content, reply, resp_str, i,
                  retries, exit_cause, opens, closes, task, wire, wlog,
                  faults, iters, resumed_with, skipped, pending, order,
                  command, executed, kernelVars,
                 chessVars >>

\* main.py:72-76: one read returns the next n bytes of the stream.
FeedRead ==
    /\ pc = "framer"
    /\ stream # << >>
    /\ ~ HasNewline(read_buffer)
    /\ \E n \in 1..Len(stream) :
          /\ read_buffer' = Feed(read_buffer, SubSeq(stream, 1, n))
          /\ rx' = rx \o SubSeq(stream, 1, n)
          /\ stream' = SubSeq(stream, n + 1, Len(stream))
    /\ UNCHANGED records
    /\ UNCHANGED framerFixed

\* main.py:98-102: one record is split off; a blank one is dropped.
FeedLine ==
    /\ pc = "framer"
    /\ HasNewline(read_buffer)
    /\ read_buffer' = SplitRest(read_buffer)
    /\ records' = IF Strip(SplitLine(read_buffer)) = << >>
                  THEN records
                  ELSE Append(records, Strip(SplitLine(read_buffer)))
    /\ UNCHANGED << stream, rx >>
    /\ UNCHANGED framerFixed

FramerNext ==
    \/ FeedRead
    \/ FeedLine

FramerSpec == FramerInit /\ [][FramerNext]_vars

RECURSIVE Drain(_)
\* The records the loop of main.py:98-102 takes out of a buffer.
Drain(buf) ==
    IF ~ HasNewline(buf) THEN << >>
    ELSE IF Strip(SplitLine(buf)) = << >> THEN Drain(SplitRest(buf))
    ELSE << Strip(SplitLine(buf)) >> \o Drain(SplitRest(buf))

\* The records of a stream that arrives in one read.
AllAtOnce(bytes) == Drain(Feed(<< >>, bytes))

-----------------------------------------------------------------------------
(* The classification alone (main.py:250-305) on any handler result: the   *)
(* agent graph hands back whatever text the model wrote.                   *)

\* A result is made of tags, braces and other text.
ResultTokens == Tags \cup {"{", "}", "a"}

ClassifyInit ==
    /\ pc = "classifier"
    /\ response_content \in SeqsOf(ResultTokens, MaxResult)
    /\ msg_id \in Ids
    /\ reply = NoReply
    /\ resp_str = << >>
    /\ stream = << >>
    /\ rx = << >>
    /\ records = << >>
    /\ read_buffer = << >>
    /\ path_exists = TRUE
    /\ fd_open = TRUE
    /\ graph = "ready"
    /\ heartbeat_counter = 0
    /\ markers = 0
    /\ msg = NoMsg
    /\ user_prompt = ""
    /\ i = 0
    /\ retries = 0
    /\ exit_cause = "running"
    /\ opens = 1
    /\ closes = 0
    /\ task = NoTask
    /\ wire = << >>
    /\ wlog = << >>
    /\ faults = 0
    /\ iters = 0
    /\ resumed_with = << >>
    /\ skipped = 0
    /\ pending = << >>
    /\ order = NoOrder
    /\ KernelAtRest
    /\ ChessAtRest
    /\ command = << >>
    /\ executed = {}

\* main.py:250-305 for the result in hand
ClassifyResult ==
    /\ pc = "classifier"
    /\ reply' = MakeReply(msg_id, response_content)
    /\ resp_str' = RespStr(reply')
    /\ pc' = "classified"
    /\ UNCHANGED << path_exists, fd_open, graph, read_buffer,
                    heartbeat_counter, markers,
                    msg, user_prompt, msg_id, response_content, i, retries,
                    exit_cause, opens, closes, task, wire, wlog, faults, iters,
                    resumed_with, skipped, pending, order, command, executed,
                    stream, rx, records, kernelVars, chessVars >>

ClassifyNext == ClassifyResult

ClassifySpec == ClassifyInit /\ [][ClassifyNext]_vars

-----------------------------------------------------------------------------
(* The codec character by character: json.dumps(reply) + "\n" of           *)
(* main.py:305 and json.loads(line) of main.py:105, on envelopes whose     *)
(* strings hold the characters that the two treat specially.               *)

Digit == << "0", "1", "2", "3", "4", "5", "6", "7", "8", "9" >>

IsDigit(c) == \E d \in 1..10 : Digit[d] = c

DigitVal(c) == (CHOOSE d \in 1..10 : Digit[d] = c) - 1

RECURSIVE Digits(_)
\* str(n) for n >= 0
Digits(n) == IF n < 10 THEN << Digit[n + 1] >>
             ELSE Digits(n \div 10) \o << Digit[(n % 10) + 1] >>

\* json.dumps of an int
DumpsInt(n) == IF n < 0 THEN << "-" >> \o Digits(0 - n) ELSE Digits(n)

\* The newline is left as it is.
EscapeChar_raw_newline(c) ==
    IF c = "\"" THEN << "\\", "\"" >>
    ELSE IF c = "\\" THEN << "\\", "\\" >>
    ELSE IF c = "U+00E9" THEN << "\\", "u", "0", "0", "e", "9" >>
    ELSE << c >>

\* json.dumps of one character of a string, ensure_ascii at its default
EscapeChar(c) ==
    IF c = "\"" THEN << "\\", "\"" >>
    ELSE IF c = "\\" THEN << "\\", "\\" >>
    ELSE IF c = "\n" THEN << "\\", "n" >>
    ELSE IF c = "U+00E9" THEN << "\\", "u", "0", "0", "e", "9" >>
    ELSE << c >>

RECURSIVE EscapeChars(_)
EscapeChars(str) == IF str = << >> THEN << >>
                    ELSE EscapeChar(Head(str)) \o EscapeChars(Tail(str))

\* json.dumps of a str
DumpsStr(str) == << "\"" >> \o EscapeChars(str) \o << "\"" >>

KeyId == << "{", "\"", "i", "d", "\"", ":", " " >>
KeyTarget == << ",", " ", "\"", "t", "a", "r", "g", "e", "t", "\"", ":", " " >>
KeyMsgType ==
    << ",", " ", "\"", "m", "s", "g", "_", "t", "y", "p", "e", "\"", ":", " " >>
KeyContent ==
    << ",", " ", "\"", "c", "o", "n", "t", "e", "n", "t", "\"", ":", " " >>

\* json.dumps(reply): the keys in the order of the dict of main.py:298-303
JsonDumps(e) ==
    KeyId \o DumpsInt(e.id) \o KeyTarget \o DumpsStr(e.target)
    \o KeyMsgType \o DumpsStr(e.msg_type)
    \o KeyContent \o DumpsStr(e.content) \o << "}" >>

\* resp_str = json.dumps(reply) + "\n"
Encode(e) == JsonDumps(e) \o << "\n" >>

ParseError == [ok |-> FALSE, val |-> << >>, next |-> 0]

\* The text has lit at position p.
Expect(t, p, lit) ==
    /\ p + Len(lit) - 1 <= Len(t)
    /\ SubSeq(t, p, p + Len(lit) - 1) = lit

RECURSIVE ScanString(_, _, _)
\* The scanner of a JSON string, after its opening quote: up to the closing
\* quote, escapes undone; a control character inside is an error.
ScanString(t, p, acc) ==
    IF p > Len(t) THEN ParseError
    ELSE IF t[p] = "\"" THEN [ok |-> TRUE, val |-> acc, next |-> p + 1]
    ELSE IF t[p] = "\n" THEN ParseError
    ELSE IF t[p] = "\\"
    THEN IF p + 1 > Len(t) THEN ParseError
         ELSE IF t[p + 1] = "n" THEN ScanString(t, p + 2, Append(acc, "\n"))
         ELSE IF t[p + 1] = "\"" THEN ScanString(t, p + 2, Append(acc, "\""))
         ELSE IF t[p + 1] = "\\" THEN ScanString(t, p + 2, Append(acc, "\\"))
         ELSE IF t[p + 1] = "u" /\ Expect(t, p + 2, << "0", "0", "e", "9" >>)
         THEN ScanString(t, p + 6, Append(acc, "U+00E9"))
         ELSE ParseError
    ELSE ScanString(t, p + 1, Append(acc, t[p]))

LoadsStr(t, p) ==
    IF p <= Len(t) /\ t[p] = "\"" THEN ScanString(t, p + 1, << >>)
    ELSE ParseError

RECURSIVE ScanDigits(_, _, _)
ScanDigits(t, p, acc) ==
    IF p <= Len(t) /\ IsDigit(t[p])
    THEN ScanDigits(t, p + 1, 10 * acc + DigitVal(t[p]))
    ELSE [ok |-> TRUE, val |-> acc, next |-> p]

LoadsInt(t, p) ==
    IF p <= Len(t) /\ t[p] = "-"
    THEN IF p + 1 <= Len(t) /\ IsDigit(t[p + 1])
         THEN LET r == ScanDigits(t, p + 1, 0)
              IN  [ok |-> TRUE, val |-> 0 - r.val, next |-> r.next]
         ELSE [ok |-> FALSE, val |-> 0, next |-> 0]
    ELSE IF p <= Len(t) /\ IsDigit(t[p]) THEN ScanDigits(t, p, 0)
    ELSE [ok |-> FALSE, val |-> 0, next |-> 0]

NotDecoded == [ok |-> FALSE, id |-> 0, target |-> << >>, msg_type |-> << >>,
               content |-> << >>]

\* json.loads(line) for the texts json.dumps writes for an envelope: the
\* four members in the order of main.py:298-303; any other text is an
\* error here.
JsonLoads(t) ==
    IF ~ Expect(t, 1, KeyId) THEN NotDecoded
    ELSE LET id == LoadsInt(t, Len(KeyId) + 1) IN
    IF ~ (id.ok /\ Expect(t, id.next, KeyTarget)) THEN NotDecoded
    ELSE LET target == LoadsStr(t, id.next + Len(KeyTarget)) IN
    IF ~ (target.ok /\ Expect(t, target.next, KeyMsgType)) THEN NotDecoded
    ELSE LET mt == LoadsStr(t, target.next + Len(KeyMsgType)) IN
    IF ~ (mt.ok /\ Expect(t, mt.next, KeyContent)) THEN NotDecoded
    ELSE LET content == LoadsStr(t, mt.next + Len(KeyContent)) IN
    IF ~ (content.ok /\ content.next = Len(t) /\ t[Len(t)] = "}")
    THEN NotDecoded
    ELSE [ok |-> TRUE, id |-> id.val, target |-> target.val,
          msg_type |-> mt.val, content |-> content.val]

\* chunk.encode('utf-8') of a text json.dumps wrote: one byte per character
ToBytes(text) == [k \in 1..Len(text) |-> B(text[k])]

\* The characters of a framed line.
ToText(line) == [k \in 1..Len(line) |-> line[k].t]

RECURSIVE Rest(_)
\* read_buffer when the loop of main.py:98-102 has ended.
Rest(buf) == IF HasNewline(buf) THEN Rest(SplitRest(buf)) ELSE buf

\* The characters json.dumps and json.loads treat specially, and two that
\* look like the tail of an escape.
Alphabet == {"a", "n", " ", "\n", "\"", "\\", "U+00E9"}

CodecIds == {0 - 1, 0, 42}

\* target and msg_type: a plain name, and one with a newline and a quote
Names == { << "a" >>, << "\n", "\"" >> }

Envelopes ==
    [id : CodecIds, target : Names, msg_type : Names,
     content : SeqsOf(Alphabet, MaxText)]

CodecInit ==
    /\ pc = "codec"
    /\ reply \in Envelopes
    /\ msg = NotDecoded
    /\ resp_str = << >>
    /\ response_content = << >>
    /\ msg_id = None
    /\ stream = << >>
    /\ rx = << >>
    /\ records = << >>
    /\ read_buffer = << >>
    /\ path_exists = TRUE
    /\ fd_open = TRUE
    /\ graph = "unset"
    /\ heartbeat_counter = 0
    /\ markers = 0
    /\ user_prompt = ""
    /\ i = 0
    /\ retries = 0
    /\ exit_cause = "running"
    /\ opens = 1
    /\ closes = 0
    /\ task = NoTask
    /\ wire = << >>
    /\ wlog = << >>
    /\ faults = 0
    /\ iters = 0
    /\ resumed_with = << >>
    /\ skipped = 0
    /\ pending = << >>
    /\ order = NoOrder
    /\ KernelAtRest
    /\ ChessAtRest
    /\ command = << >>
    /\ executed = {}

codecFixed == << path_exists, fd_open, graph, heartbeat_counter, markers,
                 user_prompt,
                 msg_id, response_content, reply, i, retries, exit_cause,
                 opens, closes, task, wire, wlog, faults, iters, resumed_with,
                 skipped, pending, order, command, executed, stream, kernelVars,
                 chessVars >>

\* main.py:305
EncodeEnvelope ==
    /\ pc = "codec"
    /\ resp_str' = Encode(reply)
    /\ pc' = "encoded"
    /\ UNCHANGED << msg, read_buffer, rx, records >>
    /\ UNCHANGED codecFixed

\* main.py:72-102: the text arrives in one read and the record loop runs.
FrameText ==
    /\ pc = "encoded"
    /\ rx' = ToBytes(resp_str)
    /\ records' = Drain(Feed(read_buffer, rx'))
    /\ read_buffer' = Rest(Feed(read_buffer, rx'))
    /\ pc' = "framed"
    /\ UNCHANGED << msg, resp_str >>
    /\ UNCHANGED codecFixed

\* main.py:105 for the first record
DecodeRecord ==
    /\ pc = "framed"
    /\ records # << >>
    /\ msg' = JsonLoads(ToText(records[1]))
    /\ pc' = "decoded"
    /\ UNCHANGED << resp_str, read_buffer, rx, records >>
    /\ UNCHANGED codecFixed

CodecNext ==
    \/ EncodeEnvelope
    \/ FrameText
    \/ DecodeRecord

CodecSpec == CodecInit /\ [][CodecNext]_vars

-----------------------------------------------------------------------------
(* safe_shell_execute (tools/shell.py:4-18) on command lines whose words   *)
(* are programs, arguments and the operators of the shell.                 *)

\* shell.py:4
ALLOWED_COMMANDS == {"ls", "pwd", "whoami", "df", "free", "mkdir", "touch",
                     "echo", "cat", "grep", "date", "uname"}

\* Words after which the shell starts the next word as a program.
ShellOperators == {";", "&&", "|", "$("}

\* Programs that are installed: one on the list, one not.
Programs == {"ls", "rm"}

ShellWords == Programs \cup ShellOperators \cup {"-r"}

\* subprocess.run(command, shell=True): /bin/sh -c command starts the first
\* word and every word that follows an operator, when it is a program.
Run(cmd) ==
    { cmd[k] : k \in { j \in 1..Len(cmd) :
                         /\ cmd[j] \in Programs
                         /\ (j = 1 \/ cmd[j - 1] \in ShellOperators) } }

ShellInit ==
    /\ pc = "shell"
    /\ command \in SeqsOf(ShellWords, MaxWords)
    /\ executed = {}
    /\ response_content = << >>
    /\ msg_id = None
    /\ reply = NoReply
    /\ resp_str = << >>
    /\ stream = << >>
    /\ rx = << >>
    /\ records = << >>
    /\ read_buffer = << >>
    /\ path_exists = TRUE
    /\ fd_open = TRUE
    /\ graph = "ready"
    /\ heartbeat_counter = 0
    /\ markers = 0
    /\ msg = NoMsg
    /\ user_prompt = ""
    /\ i = 0
    /\ retries = 0
    /\ exit_cause = "running"
    /\ opens = 1
    /\ closes = 0
    /\ task = NoTask
    /\ wire = << >>
    /\ wlog = << >>
    /\ faults = 0
    /\ iters = 0
    /\ resumed_with = << >>
    /\ skipped = 0
    /\ pending = << >>
    /\ order = NoOrder
    /\ KernelAtRest
    /\ ChessAtRest

\* shell.py:7-18: cmd_parts = command.split(); the first word is looked up
\* in ALLOWED_COMMANDS; the whole command line is handed to the shell.
safe_shell_execute ==
    /\ pc = "shell"
    /\ IF command = << >> \/ command[1] \notin ALLOWED_COMMANDS
       THEN /\ pc' = "rejected"
            /\ UNCHANGED executed
       ELSE /\ pc' = "ran"
            /\ executed' = Run(command)
    /\ UNCHANGED << path_exists, fd_open, graph, read_buffer,
                    heartbeat_counter, markers,
                    msg, user_prompt, msg_id, response_content, reply, resp_str,
                    i, retries, exit_cause, opens, closes, task, wire, wlog,
                    faults, iters, resumed_with, skipped, pending, order,
                    command, stream, rx, records, kernelVars, chessVars >>

ShellNext == safe_shell_execute

ShellSpec == ShellInit /\ [][ShellNext]_vars

-----------------------------------------------------------------------------
(* kernel_bridge.py: read_stream on the output of the emulator *)

MaxKeys == 5

STX == "0x02"
LF == "\n"
CR == "\r"
BS == "0x08"
DEL == "0x7f"
HighByte == "0xC3"
EOF == "EOF"

\* The bytes process.stdout.read(1) can return.
KernelBytes == {STX, "a", " ", LF, CR, BS, DEL, HighByte}

\* Every byte is taken for the marker.
IsMarker_any(byte_val) == TRUE

\* kernel_bridge.py:38
IsMarker(byte_val) == byte_val = STX

\* kernel_bridge.py:42: data_byte.decode('utf-8', errors='ignore') of one
\* byte: a byte above 0x7f is no character by itself and decodes to "".
DecodeByte(data_byte) == IF data_byte = HighByte THEN "" ELSE data_byte

\* "".join(current_line).strip(), as the sequence of its characters.
JoinStrip(line) ==
    LET NotEmpty(c) == c # ""
        joined == SelectSeq(line, NotEmpty)
        ink == { k \in 1..Len(joined) : joined[k] \notin {" ", LF, CR} }
    IN  IF ink = {} THEN << >>
        ELSE SubSeq(joined, CHOOSE k \in ink : \A j \in ink : k <= j,
                            CHOOSE k \in ink : \A j \in ink : j <= k)

\* What process_command may return (ai_shell.py:187-205): a text, a text of
\* two lines, the empty text.
Responses == { << "o", "k" >>, << "a", LF, "b" >>, << >> }

Prompt == << CR, LF, ">", " " >>

\* kernel_bridge.py:56-57: every "\n" becomes "\r\n", the prompt follows.
RECURSIVE ReplaceLF(_)
ReplaceLF(r) ==
    IF r = << >> THEN << >>
    ELSE (IF Head(r) = LF THEN << CR, LF >> ELSE << Head(r) >>) \o ReplaceLF(Tail(r))

ResponseFormatted(response) == ReplaceLF(response) \o Prompt

\* read_stream is entered: kernel_bridge.py:16-18.
KernelInit ==
    /\ pc = "stream"
    /\ command = << >>
    /\ executed = {}
    /\ response_content = << >>
    /\ msg_id = None
    /\ reply = NoReply
    /\ resp_str = << >>
    /\ stream = << >>
    /\ rx = << >>
    /\ records = << >>
    /\ read_buffer = << >>
    /\ path_exists = TRUE
    /\ fd_open = FALSE
    /\ graph = "unset"
    /\ heartbeat_counter = 0
    /\ markers = 0
    /\ msg = NoMsg
    /\ user_prompt = ""
    /\ i = 0
    /\ retries = 0
    /\ exit_cause = "running"
    /\ opens = 0
    /\ closes = 0
    /\ task = NoTask
    /\ wire = << >>
    /\ wlog = << >>
    /\ faults = 0
    /\ iters = 0
    /\ resumed_with = << >>
    /\ skipped = 0
    /\ pending = << >>
    /\ order = NoOrder
    /\ KernelAtRest
    /\ ChessAtRest

kernelFixed == << path_exists, fd_open, graph, read_buffer, heartbeat_counter,
                 markers, msg, user_prompt, msg_id, response_content, reply,
                 resp_str, i, retries, exit_cause, opens, closes, task, wire,
                 wlog, faults, iters, resumed_with, skipped, pending, order,
                 shellVars, framerVars, chessVars >>

\* kernel_bridge.py:45-67: the marked character ends the line.
LineEnd(byte, data_byte) ==
    LET cmd == JoinStrip(current_line) IN
    /\ current_line' = << >>
    /\ marked' = << >>
    /\ IF cmd # << >>
       THEN \/ \E response \in Responses :
                 /\ turn' = [byte |-> byte, data_byte |-> data_byte,
                             typed |-> marked, called |-> TRUE, cmd |-> cmd,
                             stdin |-> ResponseFormatted(response),
                             console |-> << >>]
                 /\ pc' = "stream"
            \/ /\ turn' = [byte |-> byte, data_byte |-> data_byte,
                            typed |-> marked, called |-> TRUE, cmd |-> cmd,
                            stdin |-> << >>, console |-> << >>]
               /\ pc' = "raised"           \* process_command raises
       ELSE /\ turn' = [byte |-> byte, data_byte |-> data_byte,
                        typed |-> marked, called |-> FALSE, cmd |-> << >>,
                        stdin |-> Prompt, console |-> << >>]
            /\ pc' = "stream"

\* kernel_bridge.py:39-74: the byte after the marker.
UserInput(byte, data_byte) ==
    LET char == DecodeByte(data_byte) IN
    IF char \in {LF, CR}
    THEN LineEnd(byte, data_byte)
    ELSE /\ current_line' =
              IF char \in {BS, DEL}
              THEN IF current_line # << >>
                   THEN SubSeq(current_line, 1, Len(current_line) - 1)
                   ELSE current_line
              ELSE Append(current_line, char)
         /\ marked' = IF char = "" THEN marked ELSE Append(marked, char)
         /\ turn' = [NoTurn EXCEPT !.byte = byte, !.data_byte = data_byte]
         /\ pc' = "stream"

\* One pass of the loop of kernel_bridge.py:20-80.
ReadByte ==
    /\ pc = "stream"
    /\ reads < MaxKeys
    /\ reads' = reads + 1
    /\ \E byte \in KernelBytes \cup {EOF} :
          IF byte = EOF
          THEN /\ pc' = "eof"
               /\ turn' = [NoTurn EXCEPT !.byte = EOF]
               /\ UNCHANGED << current_line, marked >>
          ELSE IF IsMarker(byte)
          THEN \E data_byte \in KernelBytes \cup {EOF} :
                  IF data_byte = EOF
                  THEN /\ pc' = "eof"
                       /\ turn' = [NoTurn EXCEPT !.byte = byte, !.data_byte = EOF]
                       /\ UNCHANGED << current_line, marked >>
                  ELSE UserInput(byte, data_byte)
          ELSE /\ turn' = [NoTurn EXCEPT !.byte = byte, !.console = << byte >>]
               /\ pc' = "stream"
               /\ UNCHANGED << current_line, marked >>
    /\ UNCHANGED kernelFixed

KernelNext == ReadByte

KernelSpec == KernelInit /\ [][KernelNext]_vars

-----------------------------------------------------------------------------
(* chess_battle.py: the move loop of play_chess_battle *)

MaxMovesArg == 60

\* chess_game.py:53
MoveLimit == 100

\* Values of the argument max_moves; main.py:134 calls with the default 30.
MoveArgs == {0, 1, 2, 30, MaxMovesArg}

\* chess_game.py:42-55: mate, stalemate or bare kings after the move
\* (ends), or the history has reached the limit.
CheckGameOver(g, ends) ==
    [g EXCEPT !.game_over = ends \/ Len(g.move_history) >= MoveLimit]

\* The move is pushed on the board and left out of the history.
make_move_unrecorded(g, move_uci, legal, ends) ==
    IF legal
    THEN [ok |-> TRUE, game |-> CheckGameOver(g, ends)]
    ELSE [ok |-> FALSE, game |-> g]

\* chess_game.py:29-40
make_move(g, move_uci, legal, ends) ==
    IF legal
    THEN [ok |-> TRUE,
          game |-> CheckGameOver([g EXCEPT !.move_history = Append(@, move_uci)],
                                 ends)]
    ELSE [ok |-> FALSE, game |-> g]

\* play_chess_battle is called; _msg_id is what earlier battles left.
ChessInit ==
    /\ pc = "battle"
    /\ command = << >>
    /\ executed = {}
    /\ response_content = << >>
    /\ msg_id = None
    /\ reply = NoReply
    /\ resp_str = << >>
    /\ stream = << >>
    /\ rx = << >>
    /\ records = << >>
    /\ read_buffer = << >>
    /\ path_exists = TRUE
    /\ fd_open = FALSE
    /\ graph = "unset"
    /\ heartbeat_counter = 0
    /\ markers = 0
    /\ msg = NoMsg
    /\ user_prompt = ""
    /\ i = 0
    /\ retries = 0
    /\ exit_cause = "running"
    /\ opens = 0
    /\ closes = 0
    /\ task = NoTask
    /\ wire = << >>
    /\ wlog = << >>
    /\ faults = 0
    /\ iters = 0
    /\ resumed_with = << >>
    /\ skipped = 0
    /\ pending = << >>
    /\ order = NoOrder
    /\ KernelAtRest
    /\ max_moves \in MoveArgs
    /\ half_moves = 0
    /\ game = NoGame
    /\ _msg_id \in {0, 5}
    /\ issued = << >>

chessFixed == << path_exists, fd_open, graph, read_buffer, heartbeat_counter,
                markers, msg, user_prompt, msg_id, response_content, reply,
                resp_str, i, retries, exit_cause, opens, closes, task, wire,
                wlog, faults, iters, resumed_with, skipped, pending, order,
                shellVars, framerVars, kernelVars >>

\* chess_battle.py:21, 71-72, 132-133: one call of send_chess_update and
\* the increment of the global.
SendChessUpdate ==
    /\ issued' = Append(issued, _msg_id)
    /\ _msg_id' = _msg_id + 1

\* chess_battle.py:53-76
StartBattle ==
    /\ pc = "battle"
    /\ game' = NoGame
    /\ SendChessUpdate
    /\ half_moves' = 0
    /\ pc' = "moves"
    /\ UNCHANGED max_moves
    /\ UNCHANGED chessFixed

\* chess_battle.py:78: the test of the while.
LoopEnds ==
    /\ pc = "moves"
    /\ game.game_over \/ half_moves >= max_moves * 2
    /\ pc' = "analysis"
    /\ UNCHANGED chessVars
    /\ UNCHANGED chessFixed

\* chess_battle.py:79-136: one pass of the loop.  get_llm_move returns no
\* move, a legal move or a move the board refuses.
MovePass ==
    /\ pc = "moves"
    /\ ~ game.game_over /\ half_moves < max_moves * 2
    /\ \E move \in {"", "e2e4", "e2e5"}, ends \in BOOLEAN :
          IF move = ""
          THEN /\ pc' = "analysis"                         \* break, line 90
               /\ UNCHANGED << game, half_moves, _msg_id, issued >>
          ELSE LET made == make_move(game, move, move = "e2e4", ends) IN
               /\ game' = made.game
               /\ IF made.ok
                  THEN /\ half_moves' = half_moves + 1
                       /\ SendChessUpdate
                       /\ pc' = "moves"
                  ELSE /\ pc' = "analysis"                 \* break, line 139
                       /\ UNCHANGED << half_moves, _msg_id, issued >>
    /\ UNCHANGED max_moves
    /\ UNCHANGED chessFixed

ChessNext ==
    \/ StartBattle
    \/ LoopEnds
    \/ MovePass

\* The function runs on: no pass of the loop waits for ever.
ChessSpec == ChessInit /\ [][ChessNext]_vars /\ WF_vars(ChessNext)


-----------------------------------------------------------------------------
(* Claims *)

\* id, target, msg_type and content are there and content is a string.
WellFormed(m) == m.kind = "dict" /\ AllKeys \subseteq m.keys /\ m.content_str

Untagged(s) == \A k \in 1..Len(s) : s[k] \notin Tags

\* The handling of the task has ended: its reply went through the writer, or
\* an exception ended the loop while the task was being handled.
TaskEnded ==
    \/ pc = "sent"
    \/ pc = "done" /\ exit_cause = "exception" /\ task.active

\* C1: every well-formed task record gets exactly one reply, whichever
\* branch handles it and also when the handler raises: never zero, never
\* more than one.
C1_ExactlyOneReply ==
    /\ task.replies <= 1
    /\ (TaskEnded /\ WellFormed(msg)) => task.replies = 1

\* C2: the reply carries the id of the task that triggered it and the target
\* "shell"; a handler result without any tag is sent as msg_type "response"
\* with the result as content.
C2_ReplyCorrelated ==
    pc \in {"write", "sent"} =>
        /\ reply.id = Get(msg, "id", None)
        /\ reply.target = "shell"
        /\ Untagged(response_content) =>
              /\ reply.msg_type = "response"
              /\ reply.content = response_content

C2_Witness ==
    /\ pc = "sent"
    /\ msg = SplitMsg
    /\ reply.id = "8"
    /\ reply.content = << "hi" >>
    /\ wire = resp_str

\* C3: however the reads cut the byte stream, the framer emits the records
\* it emits when the whole stream arrives in one read.
C3_SplitInvariant ==
    (pc = "framer" /\ stream = << >> /\ ~ HasNewline(read_buffer))
        => records = AllAtOnce(rx)

C5_MalformedEnvelopeDiscarded ==
    (msg.kind \in {"dict", "nondict"} /\ ~ WellFormed(msg)) =>
        /\ pc \notin {"dispatch", "classify", "write", "sent"}
        /\ ~ (pc = "done" /\ exit_cause = "exception")

\* C6: when the handler raises, in any branch, the error becomes a reply of
\* msg_type "response" with the task's id, and the loop does not end.
C6_HandlerErrorReplied ==
    task.raised =>
        /\ ~ (pc = "done" /\ exit_cause = "exception" /\ task.replies = 0)
        /\ pc \in {"write", "sent"} =>
              (reply.msg_type = "response" /\ reply.id = task.id)

\* C7: after EIO the path is checked: when it exists the loop goes on with
\* the pending buffer as it was, when it is gone the loop ends and the
\* descriptor is closed.
C7_Recovery ==
    [][ (pc = "recover" /\ exit_cause' # "interrupt") =>
          IF path_exists'
          THEN /\ pc' = "lines"
               /\ read_buffer' = read_buffer
               /\ fd_open'
               /\ exit_cause' = "running"
          ELSE /\ pc' = "done"
               /\ ~ fd_open'
               /\ closes' = closes + 1
      ]_vars

\* A record whose first part arrived before the disconnect is dispatched.
C7_Witness ==
    /\ resumed_with = << JsonHead(SplitMsg) >>
    /\ pc = "dispatch"
    /\ msg = SplitMsg

\* C8: when no write reports Disconnected, the channel has accepted exactly
\* the bytes of the serialized record, in order.
C8_BytesIntact ==
    pc = "sent" => wire = resp_str

Blocked == \E k \in 1..Len(wlog) : wlog[k].op = "sleep" /\ wlog[k].n = BackoffMs

CeilDiv(a, b) == (a + b - 1) \div b

\* C9: when no write blocks, the k-th write of a reply of L bytes starts at
\* byte 32 * (k - 1) and carries min(32, rest) bytes, a 20 ms sleep follows
\* each write, and ceil(L / 32) writes are made in all.
C9_ChunkPlan ==
    (pc \in {"write", "sent"} /\ ~ Blocked) =>
        LET L == ByteCount(resp_str) IN
        /\ \A k \in 1..Len(wlog) :
              IF k % 2 = 1
              THEN /\ wlog[k].op = "write"
                   /\ wlog[k].off = ChunkSize * ((k - 1) \div 2)
                   /\ wlog[k].n <= ChunkSize
                   /\ wlog[k].n = IF L - wlog[k].off < ChunkSize
                                  THEN L - wlog[k].off ELSE ChunkSize
              ELSE /\ wlog[k].op = "sleep"
                   /\ wlog[k].n = InterChunkDelayMs
        /\ pc = "sent" => Len(wlog) = 2 * CeilDiv(L, ChunkSize)

\* A reply with a character outside ASCII in a full chunk went out.
C9_Witness ==
    /\ pc = "sent"
    /\ ~ Blocked
    /\ response_content = << "caf", "U+00E9", " au lait, s'il vous plait !!" >>
    /\ Len(wlog) = 2 * 4

\* C10: the descriptor is opened once and, once opened, closed exactly once
\* on every path by which main() stops.
C10_ClosedOnce ==
    /\ opens <= 1
    /\ closes <= opens
    /\ pc = "done" => closes = opens

IsPrefix(a, b) == Len(a) <= Len(b) /\ a = SubSeq(b, 1, Len(a))

\* The offsets of the chunks of a text.
ChunkOffsets(text) == { ChunkSize * k : k \in 0..(CeilDiv(Len(text), ChunkSize) - 1) }

\* C11: the task records of one read are handled one at a time in arrival
\* order: the handler is called for a record only when the reply to the
\* record before it has gone to the channel chunk by chunk, and replies go
\* out in the order of the tasks.
C11_Sequential ==
    /\ IsPrefix(order.started, order.arrivals)
    /\ IsPrefix(order.emitted, order.started)
    /\ Len(order.started) <= Len(order.emitted) + 1
    /\ pc \in {"dispatch", "classify", "write"} =>
          Len(order.started) = Len(order.emitted) + 1
    /\ pc = "sent" =>
          /\ Len(order.started) = Len(order.emitted)
          /\ \A off \in ChunkOffsets(resp_str) :
                \E k \in 1..Len(wlog) : wlog[k].op = "write" /\ wlog[k].off = off

\* Two tasks came in one read and both replies have gone out.
C11_Witness ==
    /\ pc = "sent"
    /\ order.arrivals = << "7", "8" >>
    /\ order.emitted = << "7", "8" >>

\* The msg_type a tag stands for.
MsgTypeOf(tag) ==
    CASE tag = "GUI_PIPELINE_DIAGRAM:" -> "gui_pipeline_diagram"
      [] tag = "GUI_ML_DASHBOARD:"     -> "gui_ml_dashboard"
      [] tag = "GUI_PLOT:"             -> "gui_plot"
      [] tag = "GUI_CHESS:"            -> "gui_chess"

\* C12: a result that begins with a tag is sent with the msg_type of that
\* tag and, as content, the result without the tag and nothing else taken
\* away.
C12_TagStripped ==
    (pc = "classified" /\ response_content # << >>
       /\ response_content[1] \in Tags) =>
        /\ reply.msg_type = MsgTypeOf(response_content[1])
        /\ reply.content = Tail(response_content)

MsgTypes == {"gui_pipeline_diagram", "gui_ml_dashboard", "gui_plot",
             "gui_chess", "response"}

\* pipeline diagram, ML dashboard, plot, chess
Priority(tag) ==
    CASE tag = "GUI_PIPELINE_DIAGRAM:" -> 1
      [] tag = "GUI_ML_DASHBOARD:"     -> 2
      [] tag = "GUI_PLOT:"             -> 3
      [] tag = "GUI_CHESS:"            -> 4

Highest(T) == CHOOSE t \in T : \A u \in T : Priority(t) <= Priority(u)

\* The tags that occur in a text.
TagsIn(s) == { s[k] : k \in { j \in 1..Len(s) : s[j] \in Tags } }

\* The tags that are directly followed by "{" with a "}" after it.
TagsWithPayload(s) ==
    { s[k] : k \in { j \in 1..(Len(s) - 2) :
                       /\ s[j] \in Tags
                       /\ s[j + 1] = "{"
                       /\ \E q \in (j + 2)..Len(s) : s[q] = "}" } }

\* C13 as stated: the reply has one of the five types, and a result with
\* more than one tag in it is sent with the type of the highest-priority
\* tag in it.
C13_HighestTagPresent ==
    pc = "classified" =>
        /\ reply.msg_type \in MsgTypes
        /\ Cardinality(TagsIn(response_content)) > 1 =>
              reply.msg_type = MsgTypeOf(Highest(TagsIn(response_content)))

\* C13: the reply has one of the five types, and when tags with a
\* brace-delimited payload occur in the result, the type is that of the
\* highest-priority one of them (pipeline diagram, ML dashboard, plot,
\* chess).
C13_HighestPayloadTag ==
    pc = "classified" =>
        /\ reply.msg_type \in MsgTypes
        /\ TagsWithPayload(response_content) # {} =>
              reply.msg_type = MsgTypeOf(Highest(TagsWithPayload(response_content)))

\* A chess payload with a plot payload inside it is sent as a plot.
C13_Witness ==
    /\ pc = "classified"
    /\ response_content = << "GUI_CHESS:", "{", "GUI_PLOT:", "{", "}" >>
    /\ reply.msg_type = "gui_plot"

\* C14 as stated: a result that does not begin with a tag is sent as
\* "response" with the result as content, whatever occurs later in it.
C14_NoPrefixIsResponse ==
    (pc = "classified"
       /\ ~ (response_content # << >> /\ response_content[1] \in Tags)) =>
        /\ reply.msg_type = "response"
        /\ reply.content = response_content

\* C14: a result that does not begin with a tag, and in which no tag is
\* directly followed by a brace-delimited payload, is sent as "response"
\* with the result as content; a result that ends like the one of
\* play_chess_battle, text and then GUI_CHESS:{}, is sent as "gui_chess"
\* with the payload as content.
C14_NoPayloadIsResponse ==
    pc = "classified" =>
        /\ (/\ ~ (response_content # << >> /\ response_content[1] \in Tags)
            /\ TagsWithPayload(response_content) = {}) =>
              /\ reply.msg_type = "response"
              /\ reply.content = response_content
        /\ response_content = << "a", "GUI_CHESS:", "{", "}" >> =>
              /\ reply.msg_type = "gui_chess"
              /\ reply.content = << "{", "}" >>

\* A tag without payload in the middle of a text: sent as it is.
C14_Witness ==
    /\ pc = "classified"
    /\ response_content = << "a", "GUI_PLOT:", "a" >>
    /\ reply.msg_type = "response"
    /\ reply.content = response_content

\* C15: the text written for an envelope has one newline, its last
\* character; the framer takes exactly one record out of it; decoding the
\* record gives the envelope back.
C15_RoundTrip ==
    /\ pc \in {"encoded", "framed", "decoded"} =>
          /\ resp_str[Len(resp_str)] = "\n"
          /\ \A k \in 1..(Len(resp_str) - 1) : resp_str[k] # "\n"
    /\ pc \in {"framed", "decoded"} =>
          /\ Len(records) = 1
          /\ read_buffer = << >>
    /\ pc = "decoded" =>
          /\ msg.ok
          /\ msg.id = reply.id
          /\ msg.target = reply.target
          /\ msg.msg_type = reply.msg_type
          /\ msg.content = reply.content

\* An envelope whose content has a newline and a backslash came back.
C15_Witness ==
    /\ pc = "decoded"
    /\ reply.id = 0 - 1
    /\ reply.content = << "\n", "\\" >>
    /\ msg.ok
    /\ msg.content = reply.content

\* C16: between two loop iterations the pending buffer is the text received
\* so far after the last newline received; a read appends to the buffer,
\* the extraction of a record takes the buffer's first line away, and no
\* other step (a read that blocks or fails, a line that is not JSON, the
\* handler, the writer) changes the buffer; a record completed by a later
\* read is handled once.
C16_PendingBuffer ==
    /\ [](pc = "read" => (read_buffer = pending /\ ~ HasNewline(read_buffer)))
    /\ [](AfterLastNewline(read_buffer) = pending)
    /\ [](Len(order.started) <= Len(order.arrivals))
    /\ [][ \/ read_buffer' = read_buffer
           \/ /\ pc = "read" /\ pc' = "lines"
              /\ \E data \in PeerSends : read_buffer' = read_buffer \o Decode(data)
           \/ /\ pc = "lines" /\ HasNewline(read_buffer)
              /\ read_buffer' = SubSeq(read_buffer, FirstNewline(read_buffer) + 1,
                                       Len(read_buffer))
       ]_vars

\* The first part of a record has been kept over a read that returned
\* nothing and a disconnect, and the record was then handled once.
C16_Witness ==
    /\ pc = "sent"
    /\ iters = 3
    /\ resumed_with = << JsonHead(SplitMsg) >>
    /\ order.arrivals = << "8" >>
    /\ order.emitted = << "8" >>
    /\ pending = << >>

\* Nothing but whitespace, or nothing at all.
Blank(line) == \A k \in 1..Len(line) : line[k] = SP

\* C17: a line that is empty or all whitespace is dropped: nothing is
\* decoded, the handler is not called, nothing is written, the loop goes on
\* with the rest of the buffer; and when a pass over the buffer has ended,
\* the handler was called once for each task record in it, blank lines or
\* not.
C17_BlankDropped ==
    /\ [][ (pc = "lines" /\ HasNewline(read_buffer)
             /\ Blank(SubSeq(read_buffer, 1, FirstNewline(read_buffer) - 1))
             /\ exit_cause' # "interrupt") =>
              /\ pc' = "lines"
              /\ read_buffer' = SubSeq(read_buffer, FirstNewline(read_buffer) + 1,
                                       Len(read_buffer))
              /\ order'.started = order.started
              /\ UNCHANGED << msg, msg_id, user_prompt, response_content, reply,
                              resp_str, task, wire, wlog, skipped, fd_open,
                              exit_cause >>
       ]_vars
    /\ []((pc = "lines" /\ ~ HasNewline(read_buffer)) =>
            order.started = order.arrivals)

\* A blank line came before the task record and one reply went out.
C17_Witness ==
    /\ pc = "sent"
    /\ order.blanks = 1
    /\ order.arrivals = << "8" >>
    /\ order.started = << "8" >>
    /\ order.emitted = << "8" >>
    /\ task.replies = 1

\* The line decodes to a JSON object whose msg_type is missing or is not
\* "task".
NotATask(line) ==
    /\ line # << >>
    /\ Loads(line).kind = "dict"
    /\ ("msg_type" \notin Loads(line).keys \/ Loads(line).msg_type # "task")

\* C18: an envelope whose msg_type is not "task", or is missing, is
\* ignored: the handler is not called, nothing is written, and apart from
\* the line leaving the buffer nothing of the bridge changes.
C18_NonTaskIgnored ==
    [][ (pc = "lines" /\ HasNewline(read_buffer)
         /\ NotATask(Strip(SplitLine(read_buffer)))
         /\ exit_cause' # "interrupt") =>
          /\ pc' = "lines"
          /\ read_buffer' = SplitRest(read_buffer)
          /\ UNCHANGED << msg_id, user_prompt, response_content, reply,
                          resp_str, i, retries, task, wire, wlog, order,
                          skipped, pending, heartbeat_counter, markers,
                              fd_open, opens,
                          closes, exit_cause, graph >>
    ]_vars

\* An envelope without msg_type has been passed over.
C18_Witness ==
    /\ pc = "lines"
    /\ msg = NoTypeMsg
    /\ task = NoTask
    /\ order.started = << >>
    /\ wire = << >>
    /\ exit_cause = "running"

\* C19: when the device path does not exist at startup, or os.open fails,
\* main() returns before the loop: no read, no handler call, no write, and
\* no descriptor is open.
C19_NoDeviceNoLoop ==
    /\ [][ (pc = "exists" /\ ~ path_exists) =>
              (pc' = "done" /\ exit_cause' = "no_device") ]_vars
    /\ []((pc \in {"init_agent", "tools"} \/ InLoop) => opens = 1)
    /\ [](exit_cause \in {"no_device", "open_failed", "open_failed_recoverable"} =>
            /\ pc = "done"
            /\ ~ fd_open
            /\ opens = 0
            /\ closes = 0
            /\ iters = 0
            /\ task = NoTask
            /\ order = NoOrder
            /\ wire = << >>
            /\ wlog = << >>)

\* The path was there and os.open failed.
C19_Witness ==
    /\ pc = "done"
    /\ exit_cause = "open_failed"
    /\ path_exists
    /\ ~ fd_open
    /\ opens = 0

\* C20: safe_shell_execute never has a program run that is not in
\* ALLOWED_COMMANDS, whatever follows the first word.
C20_OnlyAllowedRun ==
    /\ executed \subseteq ALLOWED_COMMANDS
    /\ pc = "rejected" => executed = {}

LastEvent == wlog[Len(wlog)]

\* C21: a Disconnected on a read or on a chunk write takes the bridge to the
\* path check; the bridge closes only when the path is gone at that check.
C21_DisconnectRecovers ==
    /\ (pc = "done" /\ exit_cause = "path_gone") => ~ path_exists
    /\ (wlog # << >> /\ LastEvent.op = "EIO") =>
          \/ pc = "recover"
          \/ pc = "done" /\ exit_cause \in {"path_gone", "interrupt"}

\* C22: only the chunk loop of the bridge writes to the descriptor: no tool
\* has written a byte to it.
C22_OnlyBridgeWrites ==
    task.streamed = << >>

\* The bytes are whole updates, one after the other.
WholeUpdates(bytes) ==
    /\ Len(bytes) % Len(UpdateStr) = 0
    /\ \A k \in 1..Len(bytes) : bytes[k] = UpdateStr[((k - 1) % Len(UpdateStr)) + 1]

\* C29: a streaming update reaches the channel whole or not at all: what
\* the tools have written is a sequence of complete newline-terminated
\* records.
C29_UpdateAtomic ==
    WholeUpdates(task.streamed)

\* The positions in wlog of the os.write calls on the chunk at offset off,
\* and of those that raised BlockingIOError.
Attempts(off) == { k \in 1..Len(wlog) : wlog[k].op = "write" /\ wlog[k].off = off }

BlockedAttempts(off) ==
    { k \in Attempts(off) : k < Len(wlog) /\ wlog[k + 1] = Event("sleep", off, BackoffMs) }

\* C23: a chunk write that would block is tried again after a 10 ms sleep,
\* three attempts at most for one chunk; when all three block, the 20 ms
\* delay follows and the writer goes on with the next chunk; every chunk of
\* the record is attempted and the loop of the bridge does not end for it.
C23_BoundedRetry ==
    /\ pc \in {"write", "sent"} =>
          /\ \A off \in ChunkOffsets(resp_str) :
                /\ Cardinality(Attempts(off)) <= MaxRetries
                /\ \A k \in Attempts(off) :
                      \/ k \in BlockedAttempts(off)
                      \/ /\ k < Len(wlog)
                         /\ wlog[k + 1] = Event("sleep", off, InterChunkDelayMs)
                /\ \A k \in BlockedAttempts(off) :
                      IF Cardinality({ j \in BlockedAttempts(off) : j <= k }) < MaxRetries
                      THEN \/ k + 1 = Len(wlog) /\ pc = "write" /\ i = off
                           \/ /\ k + 2 <= Len(wlog)
                              /\ wlog[k + 2].op = "write"
                              /\ wlog[k + 2].off = off
                      ELSE /\ k + 2 <= Len(wlog)
                           /\ wlog[k + 2] = Event("sleep", off, InterChunkDelayMs)
                           /\ IF off + ChunkSize >= Len(resp_str)
                              THEN pc = "sent"
                              ELSE i > off
                /\ (pc = "sent" \/ i > off) => Attempts(off) # {}
          /\ fd_open
          /\ exit_cause = "running"
    /\ (pc = "done" /\ exit_cause = "exception" /\ wlog # << >>) =>
          LastEvent.op = "EIO"

\* The three attempts on the first chunk of a reply blocked and the rest of
\* the reply went out.
C23_Witness ==
    /\ pc = "sent"
    /\ Cardinality(BlockedAttempts(0)) = MaxRetries
    /\ Len(resp_str) > ChunkSize
    /\ wire = SubSeq(resp_str, ChunkSize + 1, Len(resp_str))

\* C24: once a chunk write has failed with a disconnect, nothing more of
\* the record is written: no retry of the chunk, no later chunk.
C24_NoWriteAfterDisconnect ==
    \A k \in 1..Len(wlog) :
        wlog[k].op = "EIO" =>
            /\ k = Len(wlog)
            /\ pc = "done"
            /\ ~ fd_open
            /\ Len(wire) <= wlog[k].off

\* The second chunk of a reply met the disconnect after the first had gone
\* out.
C24_Witness ==
    /\ wlog # << >>
    /\ LastEvent = Event("EIO", ChunkSize, 0)
    /\ wire = SubSeq(resp_str, 1, ChunkSize)
    /\ Len(resp_str) > 2 * ChunkSize

\* A read without data leaves the buffer and the channel alone, and the
\* step after it is the sleep before the next read (or Ctrl-C).
BlockedReadStep ==
    /\ (pc = "read" /\ order'.read = "block") =>
          /\ read_buffer' = read_buffer
          /\ UNCHANGED << task, wire, wlog, fd_open, closes >>
    /\ (order.read = "block" /\ pc = "lines") =>
          /\ pc' \in {"read", "done"}
          /\ (pc' = "read" => fd_open')
          /\ UNCHANGED << read_buffer, task, wire, wlog >>

\* C25: a read without data does not end the loop and does nothing in its
\* iteration: the buffer is as it was, no record is taken from it, the
\* handler is not called, nothing is written, and the loop goes to its
\* sleep and to the next read.
C25_BlockedReadIdle ==
    /\ [](order.read = "block" =>
            /\ pc \in {"lines", "done"}
            /\ (pc = "done" => exit_cause = "interrupt")
            /\ read_buffer = pending
            /\ ~ HasNewline(read_buffer)
            /\ order.started = << >> /\ order.emitted = << >>
            /\ skipped = 0 /\ order.blanks = 0
            /\ msg = NoMsg
            /\ task = NoTask
            /\ wire = << >> /\ wlog = << >>)
    /\ [][BlockedReadStep]_vars

\* A read without data came while half a record was in the buffer, and the
\* loop went on to read the rest.
C25_Witness ==
    /\ order.read = "block"
    /\ pc = "lines"
    /\ read_buffer = << JsonHead(SplitMsg) >>
    /\ iters = 2

\* The loop goes from the record loop to its sleep and the next read.
ToNextRead == pc = "lines" /\ pc' = "read"

\* C30: at every read the buffer holds no newline: every record that was
\* complete in the buffer after a read has been taken out and handled or
\* skipped before the loop reads again.
C30_NoRecordAcrossRead ==
    /\ [](pc = "read" =>
            /\ \A k \in 1..Len(read_buffer) : read_buffer[k] # NL
            /\ order = NoOrder
            /\ task = NoTask)
    /\ [][ToNextRead =>
            /\ order.started = order.arrivals
            /\ order.emitted = order.arrivals
            /\ ArrivalIds(read_buffer) = << >>
            /\ read_buffer' = AfterLastNewline(read_buffer)]_vars

\* Two tasks came in one read and both were answered before the loop went
\* back to read.
C30_Witness ==
    /\ pc = "lines"
    /\ ~ HasNewline(read_buffer)
    /\ Len(order.arrivals) = 2
    /\ order.emitted = order.arrivals

\* C27: an open that fails with a recoverable error is tried again until
\* it succeeds: the bridge does not stop for it, and it reads only with the
\* channel open.
C27_OpenRetried ==
    /\ exit_cause # "open_failed_recoverable"
    /\ pc = "read" => fd_open

\* C28: every iteration of the loop advances the heartbeat counter once,
\* whether its read brought data, blocked or met a disconnect that was
\* recovered; the dot is printed in every 1000th iteration and the counter
\* starts again from 0, so that it is in 0..999 when an iteration ends.
C28_Heartbeat ==
    pc = "read" =>
        /\ heartbeat_counter \in 0..(HeartbeatPeriod - 1)
        /\ heartbeat_counter = iters % HeartbeatPeriod
        /\ markers = iters \div HeartbeatPeriod

\* The second dot has just been printed.
C28_Witness ==
    /\ pc = "read"
    /\ iters = 2 * HeartbeatPeriod
    /\ markers = 2
    /\ heartbeat_counter = 0

\* C26: in the PTY echo bridge a chunk write that would block does not end
\* the bridge, however often it blocks on the same chunk: after a blocked
\* write the bridge is still running with the descriptor open.
C26_EchoSurvivesBlocking ==
    (wlog # << >> /\ LastEvent.op \in {"sleep", "BlockingIOError"}) =>
        /\ exit_cause \in {"running", "interrupt"}
        /\ exit_cause = "running" => fd_open

\* The prompt of the task in hand matches none of the patterns of the
\* tools that are called directly.
NoDirectTool ==
    \A g \in {"ready", "none"} : Branch(user_prompt, g) \notin DirectBranches

\* C31: when the agent graph could not be built at startup the loop runs
\* all the same, and a task that matches no direct-tool pattern gets the
\* reply "Agent not initialized" with its id and msg_type "response"; the
\* agent graph is not called.
C31_NoAgentReply ==
    (graph = "none" /\ task.active /\ NoDirectTool) =>
        /\ pc \in {"dispatch", "classify", "write", "sent", "done"}
        /\ pc = "done" => exit_cause \in {"interrupt", "exception"}
        /\ ~ task.raised
        /\ pc = "classify" => response_content = NotInitialized
        /\ pc \in {"write", "sent"} =>
              reply = [id |-> task.id, target |-> "shell",
                       msg_type |-> "response", content |-> NotInitialized]

\* Without an agent graph the task "hello" was answered.
C31_Witness ==
    /\ graph = "none"
    /\ pc = "sent"
    /\ user_prompt = "hello"
    /\ task.id = "7"
    /\ reply.content = NotInitialized
    /\ wire = resp_str

\* The last pass read a byte that is no marker: it went to the console and
\* nothing else was done.
UnmarkedPassLogs ==
    turn.byte \notin {"", STX, EOF} =>
        /\ turn.console = << turn.byte >>
        /\ turn.data_byte = ""
        /\ ~ turn.called
        /\ turn.stdin = << >>

\* The last pass read the marker: the byte after it was read as well and
\* nothing went to the console.
MarkedPassReads ==
    turn.byte = STX =>
        /\ turn.console = << >>
        /\ turn.data_byte # ""

\* C32: a byte that does not follow the marker 0x02 is log output only: the
\* pending line is as it was, process_command is not called and nothing
\* is written to the stdin of the emulator; the byte that follows a marker,
\* and no other, is user input.
C32_UnmarkedIsLog ==
    /\ []UnmarkedPassLogs
    /\ []MarkedPassReads
    /\ [][turn'.byte # STX => UNCHANGED << current_line, marked >>]_vars

\* A newline without the marker came while "a" was pending.
C32_Witness ==
    /\ turn.byte = LF
    /\ current_line = << "a" >>
    /\ turn.console = << LF >>

\* The pending line that the marked characters make: a backspace takes the
\* last one away, if there is one.
RECURSIVE PendingLine(_)
PendingLine(chars) ==
    IF chars = << >> THEN << >>
    ELSE LET before == PendingLine(SubSeq(chars, 1, Len(chars) - 1))
             c == chars[Len(chars)]
         IN  IF c \in {BS, DEL}
             THEN IF before = << >> THEN << >>
                  ELSE SubSeq(before, 1, Len(before) - 1)
             ELSE Append(before, c)

\* C33: the command given to process_command at a marked line end is the
\* marked characters since the line end before, less what the marked
\* backspaces took away, stripped; the pending line is empty after a line
\* end; a line that is empty after stripping gets the prompt only.
C33_CommandIsTypedLine ==
    (turn.byte = STX /\ turn.data_byte \in {LF, CR}) =>
        /\ current_line = << >>
        /\ IF JoinStrip(PendingLine(turn.typed)) = << >>
           THEN ~ turn.called /\ turn.stdin = Prompt
           ELSE turn.called /\ turn.cmd = JoinStrip(PendingLine(turn.typed))

\* half_moves counts the moves of the history, within the limit, and one
\* update was issued at the start and one for each move, with ids that
\* follow one another.
BattleCounts ==
    pc \in {"moves", "analysis"} =>
        /\ half_moves = Len(game.move_history)
        /\ half_moves <= 2 * max_moves
        /\ Len(issued) = 1 + half_moves
        /\ \A k \in 1..Len(issued) : issued[k] = issued[1] + (k - 1)
        /\ _msg_id = issued[1] + Len(issued)

\* A pass of the move loop makes one move or leaves the loop.
OneMoveOrLeave ==
    pc = "moves" =>
        \/ /\ pc' = "moves"
           /\ half_moves' = half_moves + 1
           /\ Len(game'.move_history) = Len(game.move_history) + 1
        \/ /\ pc' = "analysis"
           /\ half_moves' = half_moves
           /\ game'.move_history = game.move_history

\* C34: the move loop of play_chess_battle ends whatever the agents
\* answer: a pass makes one legal move and adds one to half_moves, or
\* leaves the loop; at most 2 * max_moves moves are played, half_moves is
\* the length of move_history, and 1 + half_moves updates are issued with
\* consecutive ids.
C34_MoveLoopEnds ==
    /\ []BattleCounts
    /\ [][OneMoveOrLeave]_vars
    /\ <>(pc = "analysis")

\* Both sides played their two moves and the loop ended on the count.
C34_Witness ==
    /\ pc = "analysis"
    /\ max_moves = 2
    /\ half_moves = 4
    /\ ~ game.game_over
    /\ issued = << 5, 6, 7, 8, 9 >>

====
